---- MODULE Spec2Model ----
(***************************************************************************)
(* Model of KafkaKerberosUtility (src/kafka_kerberos_utility.py): the       *)
(* configuration resolution and validation run by __init__, the            *)
(* per-topic producer/consumer caches, and the produce/consume/close       *)
(* operations.                                                             *)
(*                                                                         *)
(* Python values are modelled as follows.                                  *)
(*   str        a TLA+ string                                              *)
(*   dict       a function whose DOMAIN is the set of keys                 *)
(*   Optional   a sequence of length <= 1 (None is << >>)                  *)
(*   ordered dict (the handle caches, a poll result): a sequence of        *)
(*              [key, value] records in insertion order                    *)
(***************************************************************************)
EXTENDS Integers, Sequences, FiniteSets, TLC

VARIABLES
    DOTENV_AVAILABLE,  \* module flag set by the import of dotenv
    environ,           \* os.environ: variable name -> value
    config_file,       \* the argument of __init__ (Optional path)
    fs,                \* the filesystem: path -> file content
    tmpWritable,       \* whether /tmp/kafka_jaas.conf can be opened for writing
    status,            \* "new", "ready" (constructed) or "failed" (__init__ raised)
    config,            \* self.config
    initError,         \* the exception __init__ raised (Optional)
    producers,         \* self._producers
    consumers,         \* self._consumers
    handles,           \* every client object constructed so far, indexed by identity
    ctorCalls,         \* client constructor invocations: <<role, topic>> -> count
    incoming,          \* what the next consumer.poll calls deliver, in order
    ret,               \* outcome of the last public call
    sessions,          \* SpecRace: the sessions under construction in one process
    loop               \* SpecLoop: the consume loop, iteration by iteration

vars == <<DOTENV_AVAILABLE, environ, config_file, fs, tmpWritable, status,
          config, initError, producers, consumers, handles, ctorCalls, incoming, ret,
          sessions, loop>>

None == << >>
Some(v) == <<v>>

\* The empty dict.
EmptyDict == [k \in {} |-> ""]

\* d1 overlaid by d2 (dict.update).
Update(d1, d2) ==
    [k \in (DOMAIN d1) \cup (DOMAIN d2) |-> IF k \in DOMAIN d2 THEN d2[k] ELSE d1[k]]

(***************************************************************************)
(* Field names and their environment variables (_load_config, env_config). *)
(***************************************************************************)
Fields ==
    {"bootstrap_servers", "topic", "keytab_path", "principal", "service_name",
     "jaas_config_path", "consumer_group_id", "auto_offset_reset",
     "max_poll_records", "session_timeout_ms", "heartbeat_interval_ms"}

EnvName(k) ==
    CASE k = "bootstrap_servers"     -> "KAFKA_BOOTSTRAP_SERVERS"
      [] k = "topic"                 -> "KAFKA_TOPIC"
      [] k = "keytab_path"           -> "KAFKA_KEYTAB_PATH"
      [] k = "principal"             -> "KAFKA_PRINCIPAL"
      [] k = "service_name"          -> "KAFKA_SERVICE_NAME"
      [] k = "jaas_config_path"      -> "KAFKA_JAAS_CONFIG_PATH"
      [] k = "consumer_group_id"     -> "KAFKA_CONSUMER_GROUP_ID"
      [] k = "auto_offset_reset"     -> "KAFKA_AUTO_OFFSET_RESET"
      [] k = "max_poll_records"      -> "KAFKA_MAX_POLL_RECORDS"
      [] k = "session_timeout_ms"    -> "KAFKA_SESSION_TIMEOUT_MS"
      [] k = "heartbeat_interval_ms" -> "KAFKA_HEARTBEAT_INTERVAL_MS"

\* config.setdefault(...) lines: the built-in defaults, as the strings the code holds.
Defaults ==
    [service_name          |-> "kafka",
     consumer_group_id     |-> "kafka-utility-group",
     auto_offset_reset     |-> "earliest",
     max_poll_records      |-> "500",
     session_timeout_ms    |-> "30000",
     heartbeat_interval_ms |-> "3000"]

NumericFields == {"max_poll_records", "session_timeout_ms", "heartbeat_interval_ms"}

required_params == <<"bootstrap_servers", "topic", "keytab_path", "principal">>

(***************************************************************************)
(* int(str): surrounding blanks are stripped, one optional sign, then      *)
(* decimal digits in which single underscores may separate digits.         *)
(* Anything else raises ValueError.                                        *)
(***************************************************************************)
Char(s, i) == SubSeq(s, i, i)

DigitValue(c) ==
    CASE c = "0" -> 0 [] c = "1" -> 1 [] c = "2" -> 2 [] c = "3" -> 3
      [] c = "4" -> 4 [] c = "5" -> 5 [] c = "6" -> 6 [] c = "7" -> 7
      [] c = "8" -> 8 [] c = "9" -> 9 [] OTHER -> -1

IsDigit(c) == DigitValue(c) >= 0

RECURSIVE LStrip(_)
LStrip(s) == IF Len(s) > 0 /\ Char(s, 1) = " " THEN LStrip(Tail(s)) ELSE s

RECURSIVE RStrip(_)
RStrip(s) ==
    IF Len(s) > 0 /\ Char(s, Len(s)) = " " THEN RStrip(SubSeq(s, 1, Len(s) - 1)) ELSE s

Strip(s) == LStrip(RStrip(s))

HasSign(s) == Len(s) > 0 /\ Char(s, 1) \in {"+", "-"}

\* The digits part of a stripped literal (the sign removed).
Body(s) == IF HasSign(s) THEN Tail(s) ELSE s

BodyOk(b) ==
    /\ Len(b) > 0
    /\ \A i \in 1..Len(b) :
          \/ IsDigit(Char(b, i))
          \/ /\ Char(b, i) = "_"
             /\ i > 1 /\ i < Len(b)
             /\ IsDigit(Char(b, i - 1)) /\ IsDigit(Char(b, i + 1))

RECURSIVE DigitsValue(_, _)
DigitsValue(b, acc) ==
    IF Len(b) = 0 THEN acc
    ELSE IF Char(b, 1) = "_" THEN DigitsValue(Tail(b), acc)
    ELSE DigitsValue(Tail(b), 10 * acc + DigitValue(Char(b, 1)))

IntParses(s) == BodyOk(Body(Strip(s)))

IntValue(s) ==
    LET t == Strip(s)
        v == DigitsValue(Body(t), 0)
    IN  IF HasSign(t) /\ Char(t, 1) = "-" THEN 0 - v ELSE v

(***************************************************************************)
(* _load_config                                                            *)
(***************************************************************************)
\* os.path.exists
PathExists(files, path) == path \in DOMAIN files

\* Lines 114-119: the [kafka] section of the config file seeds the dict.
\* Variant: a path that does not exist seeds the dict with built-in values.
FileSeed_FallsBack(cf, files) ==
    IF cf # None /\ cf[1] # "" /\ PathExists(files, cf[1])
    THEN IF "kafka" \in DOMAIN files[cf[1]].sections
         THEN files[cf[1]].sections["kafka"]
         ELSE EmptyDict
    ELSE IF cf # None /\ cf[1] # ""
    THEN [bootstrap_servers |-> "localhost:9092", topic |-> "fallback-topic"]
    ELSE EmptyDict

FileSeed(cf, files) ==
    IF cf # None /\ cf[1] # "" /\ PathExists(files, cf[1])
    THEN IF "kafka" \in DOMAIN files[cf[1]].sections
         THEN files[cf[1]].sections["kafka"]
         ELSE EmptyDict
    ELSE EmptyDict

\* Lines 122-134: os.getenv of every recognized variable (None when unset).
env_config(env) ==
    [k \in Fields |-> IF EnvName(k) \in DOMAIN env THEN Some(env[EnvName(k)]) ELSE None]

\* Variant: a file value is kept when the environment also sets the key.
EnvOverlay_FileWins(cfg, env) ==
    LET ec == env_config(env)
    IN  Update([k \in {f \in Fields : ec[f] # None} |-> ec[k][1]], cfg)

\* Variant: "if value:" in place of "if value is not None:".
EnvOverlay_Truthy(cfg, env) ==
    LET ec == env_config(env)
    IN  Update(cfg, [k \in {f \in Fields : ec[f] # None /\ ec[f] # Some("")} |-> ec[k][1]])

\* Lines 137-139: only non-None environment values update the dict.
EnvOverlay(cfg, env) ==
    LET ec == env_config(env)
    IN  Update(cfg, [k \in {f \in Fields : ec[f] # None} |-> ec[k][1]])

\* Lines 142-147: config.setdefault for the six defaulted fields.
SetDefaults(cfg) ==
    Update([k \in DOMAIN Defaults |-> Defaults[k]], cfg)

\* Lines 150-155: int() of the three numeric fields, in source order; the
\* first one that does not parse raises ValueError.
ConvertNumeric(cfg) ==
    LET present == NumericFields \cap DOMAIN cfg
    IN  IF \E k \in present : ~IntParses(cfg[k])
        THEN [exc |-> "ValueError", kind |-> "invalid literal for int()",
              fields |-> << >>, cfg |-> cfg]
        ELSE [exc |-> "", kind |-> "", fields |-> << >>,
              cfg |-> [k \in DOMAIN cfg |->
                          IF k \in NumericFields THEN IntValue(cfg[k]) ELSE cfg[k]]]

load_config(cf, files, env) ==
    ConvertNumeric(SetDefaults(EnvOverlay(FileSeed(cf, files), env)))

(***************************************************************************)
(* _validate_config                                                        *)
(***************************************************************************)
\* Variant: "param not in self.config".
Falsy_AbsentOnly(cfg, k) == k \notin DOMAIN cfg

\* "not self.config.get(param)": absent, or a falsy value (the empty string).
Falsy(cfg, k) == k \notin DOMAIN cfg \/ cfg[k] = ""

\* Variant: only the first missing parameter is reported.
missing_params_First(cfg) ==
    LET m == SelectSeq(required_params, LAMBDA p : Falsy(cfg, p))
    IN  IF m = << >> THEN m ELSE <<Head(m)>>

missing_params(cfg) == SelectSeq(required_params, LAMBDA p : Falsy(cfg, p))

\* Variant: the keytab existence check comes first.
validate_config_KeytabFirst(cfg, files) ==
    IF ~Falsy(cfg, "keytab_path") /\ ~PathExists(files, cfg["keytab_path"])
    THEN [exc |-> "KafkaKerberosError", kind |-> "Keytab file not found",
          fields |-> <<cfg["keytab_path"]>>]
    ELSE IF missing_params(cfg) # << >>
    THEN [exc |-> "KafkaKerberosError",
          kind |-> "Missing required configuration parameters",
          fields |-> missing_params(cfg)]
    ELSE IF cfg["bootstrap_servers"] = ""
    THEN [exc |-> "KafkaKerberosError", kind |-> "Bootstrap servers cannot be empty",
          fields |-> << >>]
    ELSE [exc |-> "", kind |-> "", fields |-> << >>]

\* Variant: the keytab existence check is left out.
validate_config_NoKeytabCheck(cfg, files) ==
    IF missing_params(cfg) # << >>
    THEN [exc |-> "KafkaKerberosError",
          kind |-> "Missing required configuration parameters",
          fields |-> missing_params(cfg)]
    ELSE IF cfg["bootstrap_servers"] = ""
    THEN [exc |-> "KafkaKerberosError", kind |-> "Bootstrap servers cannot be empty",
          fields |-> << >>]
    ELSE [exc |-> "", kind |-> "", fields |-> << >>]

validate_config(cfg, files) ==
    IF missing_params(cfg) # << >>
    THEN [exc |-> "KafkaKerberosError",
          kind |-> "Missing required configuration parameters",
          fields |-> missing_params(cfg)]
    ELSE IF ~PathExists(files, cfg["keytab_path"])
    THEN [exc |-> "KafkaKerberosError", kind |-> "Keytab file not found",
          fields |-> <<cfg["keytab_path"]>>]
    ELSE IF cfg["bootstrap_servers"] = ""
    THEN [exc |-> "KafkaKerberosError", kind |-> "Bootstrap servers cannot be empty",
          fields |-> << >>]
    ELSE [exc |-> "", kind |-> "", fields |-> << >>]

(***************************************************************************)
(* load_dotenv(): variables of a .env file are added to os.environ; a      *)
(* variable the process already has is kept (override is off).              *)
(***************************************************************************)
DotenvPath == ".env"

load_dotenv(env, files) ==
    IF PathExists(files, DotenvPath) THEN Update(files[DotenvPath].vars, env) ELSE env

(***************************************************************************)
(* _setup_logging: logging.FileHandler opens the log file in append mode.  *)
(***************************************************************************)
LogPath == "kafka_kerberos_utility.log"

setup_logging(files) == Update(files, [p \in {LogPath} |-> [kind |-> "log"]])

(***************************************************************************)
(* _setup_kerberos and _create_jaas_config                                 *)
(***************************************************************************)
JaasPath == "/tmp/kafka_jaas.conf"

JavaOpts(path) == "-Djava.security.auth.login.config=" \o path

\* os.getuid() of the process, as it appears in KRB5CCNAME.
Uid == "1000"

Krb5Vars == [KRB5_CONFIG |-> "/etc/krb5.conf", KRB5CCNAME |-> "FILE:/tmp/krb5cc_" \o Uid]

\* Lines 219-240.  The result carries the config, environment and files
\* as the call leaves them.
create_jaas_config(cfg, env, files, writable) ==
    IF writable
    THEN [exc |-> "", kind |-> "", fields |-> << >>,
          cfg |-> Update(cfg, [k \in {"jaas_config_path"} |-> JaasPath]),
          env |-> Update(env, [k \in {"JAVA_OPTS"} |-> JavaOpts(JaasPath)]),
          fs  |-> Update(files, [p \in {JaasPath} |->
                     [kind |-> "jaas", keyTab |-> cfg["keytab_path"],
                      principal |-> cfg["principal"]]])]
    ELSE [exc |-> "KafkaKerberosError", kind |-> "Failed to create JAAS configuration",
          fields |-> << >>, cfg |-> cfg, env |-> env, fs |-> files]

\* Lines 194-215.  An exception of _create_jaas_config is caught by the
\* enclosing handler and raised again as "Failed to setup Kerberos authentication".
\* Variant: the JAAS file is generated whether or not a path was configured.
setup_kerberos_AlwaysGenerates(cfg, env, files, writable) ==
    LET env1 == Update(env, Krb5Vars)
        r    == create_jaas_config(cfg, env1, files, writable)
    IN  IF r.exc = "" THEN r
        ELSE [r EXCEPT !.kind = "Failed to setup Kerberos authentication"]

setup_kerberos(cfg, env, files, writable) ==
    LET env1 == Update(env, Krb5Vars)
    IN  IF Falsy(cfg, "jaas_config_path")
        THEN LET r == create_jaas_config(cfg, env1, files, writable)
             IN  IF r.exc = "" THEN r
                 ELSE [r EXCEPT !.kind = "Failed to setup Kerberos authentication"]
        ELSE [exc |-> "", kind |-> "", fields |-> << >>, cfg |-> cfg,
              env |-> Update(env1, [k \in {"JAVA_OPTS"} |-> JavaOpts(cfg["jaas_config_path"])]),
              fs |-> files]

(***************************************************************************)
(* Outcome of a public call, as its caller observes it.                    *)
(*   exc, kind  the exception raised and its message ("" : returned)       *)
(*   fields     the parameters or path the message names                   *)
(*   topic      the topic the call resolved                                *)
(*   handle     the client object returned or used (0: none)               *)
(*   value      the kind of value returned                                 *)
(*   messages   the list consume_messages returned                         *)
(*   polls      number of consumer.poll calls made                         *)
(*   handled    the records message_handler was invoked on, in order       *)
(*   swallowed  the records whose handler exception was logged             *)
(*   cap        the max_messages argument of consume_messages              *)
(*   stream     what the polls had to deliver when consume_messages began  *)
(*   send       what became of the send of produce_message                 *)
(*   arg        the topic argument of the call (None: not given)           *)
(*   handler    the message_handler argument of consume_messages           *)
(***************************************************************************)
NoCall ==
    [op |-> "none", topic |-> "", exc |-> "", kind |-> "", fields |-> << >>,
     handle |-> 0, value |-> "", messages |-> << >>, polls |-> 0,
     handled |-> << >>, swallowed |-> << >>, cap |-> None, stream |-> << >>,
     send |-> "", arg |-> None, handler |-> None]

InitOutcome(exc, kind, fields) ==
    [NoCall EXCEPT !.op = "__init__", !.exc = exc, !.kind = kind, !.fields = fields,
                   !.value = IF exc = "" THEN "self" ELSE ""]

(***************************************************************************)
(* __init__ (lines 72-99), one step.                                       *)
(***************************************************************************)
\* Line 83: self.logger is read before _setup_logging has assigned it.
InitNoDotenv ==
    /\ status = "new"
    /\ ~DOTENV_AVAILABLE
    /\ status' = "failed"
    /\ initError' = Some("AttributeError")
    /\ ret' = InitOutcome("AttributeError", "no attribute 'logger'", << >>)
    /\ UNCHANGED <<sessions, loop, DOTENV_AVAILABLE, environ, config_file, fs, tmpWritable, config,
                   producers, consumers, handles, ctorCalls, incoming>>

\* Line 86 raises: int() of a numeric field failed.
InitLoadFails ==
    LET env1 == load_dotenv(environ, fs)
        lc   == load_config(config_file, fs, env1)
    IN  /\ status = "new"
        /\ DOTENV_AVAILABLE
        /\ lc.exc # ""
        /\ status' = "failed"
        /\ environ' = env1
        /\ initError' = Some(lc.exc)
        /\ ret' = InitOutcome(lc.exc, lc.kind, << >>)
        /\ UNCHANGED <<sessions, loop, DOTENV_AVAILABLE, config_file, fs, tmpWritable, config,
                       producers, consumers, handles, ctorCalls, incoming>>

\* Line 96 raises: the configuration is loaded and the log file opened.
\* Variant: the Kerberos variables are set before the configuration is validated.
InitValidateFails_Krb5First ==
    LET env1 == load_dotenv(environ, fs)
        lc   == load_config(config_file, fs, env1)
        fs1  == setup_logging(fs)
        v    == validate_config(lc.cfg, fs1)
    IN  /\ status = "new"
        /\ DOTENV_AVAILABLE
        /\ lc.exc = ""
        /\ v.exc # ""
        /\ status' = "failed"
        /\ environ' = Update(env1, Krb5Vars)
        /\ config' = lc.cfg
        /\ fs' = fs1
        /\ initError' = Some(v.exc)
        /\ ret' = InitOutcome(v.exc, v.kind, v.fields)
        /\ UNCHANGED <<sessions, loop, DOTENV_AVAILABLE, config_file, tmpWritable,
                       producers, consumers, handles, ctorCalls, incoming>>

\* Variant: the validation error is recorded but the session is handed out.
InitValidateFails_Ignored ==
    LET env1 == load_dotenv(environ, fs)
        lc   == load_config(config_file, fs, env1)
        fs1  == setup_logging(fs)
        v    == validate_config(lc.cfg, fs1)
    IN  /\ status = "new"
        /\ DOTENV_AVAILABLE
        /\ lc.exc = ""
        /\ v.exc # ""
        /\ status' = "ready"
        /\ environ' = env1
        /\ config' = lc.cfg
        /\ fs' = fs1
        /\ initError' = Some(v.exc)
        /\ ret' = InitOutcome(v.exc, v.kind, v.fields)
        /\ UNCHANGED <<sessions, loop, DOTENV_AVAILABLE, config_file, tmpWritable,
                       producers, consumers, handles, ctorCalls, incoming>>

InitValidateFails ==
    LET env1 == load_dotenv(environ, fs)
        lc   == load_config(config_file, fs, env1)
        fs1  == setup_logging(fs)
        v    == validate_config(lc.cfg, fs1)
    IN  /\ status = "new"
        /\ DOTENV_AVAILABLE
        /\ lc.exc = ""
        /\ v.exc # ""
        /\ status' = "failed"
        /\ environ' = env1
        /\ config' = lc.cfg
        /\ fs' = fs1
        /\ initError' = Some(v.exc)
        /\ ret' = InitOutcome(v.exc, v.kind, v.fields)
        /\ UNCHANGED <<sessions, loop, DOTENV_AVAILABLE, config_file, tmpWritable,
                       producers, consumers, handles, ctorCalls, incoming>>

\* Validation passed; line 99 runs _setup_kerberos, which returns or raises.
InitSetup ==
    LET env1 == load_dotenv(environ, fs)
        lc   == load_config(config_file, fs, env1)
        fs1  == setup_logging(fs)
        v    == validate_config(lc.cfg, fs1)
        k    == setup_kerberos(lc.cfg, env1, fs1, tmpWritable)
    IN  /\ status = "new"
        /\ DOTENV_AVAILABLE
        /\ lc.exc = ""
        /\ v.exc = ""
        /\ status' = IF k.exc = "" THEN "ready" ELSE "failed"
        /\ environ' = k.env
        /\ config' = k.cfg
        /\ fs' = k.fs
        /\ initError' = IF k.exc = "" THEN None ELSE Some(k.exc)
        /\ ret' = InitOutcome(k.exc, k.kind, << >>)
        /\ UNCHANGED <<sessions, loop, DOTENV_AVAILABLE, config_file, tmpWritable,
                       producers, consumers, handles, ctorCalls, incoming>>

Construct == InitNoDotenv \/ InitLoadFails \/ InitValidateFails \/ InitSetup

(***************************************************************************)
(* The handle caches.  A cache is an insertion-ordered dict: a sequence of *)
(* [key, value] records with distinct keys; the value is the identity of   *)
(* the client object (its index in handles).                               *)
(***************************************************************************)
Keys(cache) == {cache[i].key : i \in DOMAIN cache}

Lookup(cache, key) == (CHOOSE i \in DOMAIN cache : cache[i].key = key)

Get(cache, key) == cache[Lookup(cache, key)].value

Values(cache) == [i \in DOMAIN cache |-> cache[i].value]

\* "topic = topic or self.config['topic']"
\* Variant: a call without topic falls back to a fixed name.
TopicOr_FixedDefault(topicArg) ==
    IF topicArg = None \/ topicArg[1] = "" THEN "default" ELSE topicArg[1]

TopicOr(topicArg) ==
    IF topicArg = None \/ topicArg[1] = "" THEN config["topic"] ELSE topicArg[1]

\* A client object as KafkaProducer(...) / KafkaConsumer(topic, ...) returns it.
\* topic: the cache key the object was constructed for.
\* subscribed: the topic a consumer was constructed with (None for a producer).
\* closeCalled: close() has been invoked on the object.
NewHandle(role, topic, subscribed) ==
    [role |-> role, topic |-> topic, subscribed |-> subscribed, open |-> TRUE,
     closeCalled |-> FALSE]

\* Number of constructor invocations for (role, topic).
CtorCount(calls, role, topic) ==
    IF <<role, topic>> \in DOMAIN calls THEN calls[<<role, topic>>] ELSE 0

\* The constructor is invoked once more for (role, topic).
Invoked(calls, role, topic) ==
    Update(calls, [k \in {<<role, topic>>} |-> CtorCount(calls, role, topic) + 1])

(***************************************************************************)
(* get_producer (lines 300-310) and get_consumer (lines 325-336).          *)
(* ctorOk: whether the client constructor returns (TRUE) or raises.        *)
(* The result gives the outcome and the caches, objects and constructor    *)
(* log as the call leaves them.                                            *)
(***************************************************************************)
\* Variant: the cache is not consulted; every call constructs a client and
\* stores it under the topic.
get_producer_NoCache(topicArg, ctorOk) ==
    LET topic == TopicOr(topicArg)
        kept  == SelectSeq(producers, LAMBDA e : e.key # topic)
    IN  IF ctorOk
        THEN [exc |-> "", kind |-> "", topic |-> topic, handle |-> Len(handles) + 1,
              producers |-> Append(kept, [key |-> topic, value |-> Len(handles) + 1]),
              handles |-> Append(handles, NewHandle("producer", topic, None)),
              ctorCalls |-> Invoked(ctorCalls, "producer", topic)]
        ELSE [exc |-> "KafkaKerberosError", kind |-> "Failed to create producer for topic",
              topic |-> topic, handle |-> 0,
              producers |-> producers, handles |-> handles,
              ctorCalls |-> Invoked(ctorCalls, "producer", topic)]

get_producer(topicArg, ctorOk) ==
    LET topic == TopicOr(topicArg)
    IN  IF topic \in Keys(producers)
        THEN [exc |-> "", kind |-> "", topic |-> topic, handle |-> Get(producers, topic),
              producers |-> producers, handles |-> handles, ctorCalls |-> ctorCalls]
        ELSE IF ctorOk
        THEN [exc |-> "", kind |-> "", topic |-> topic, handle |-> Len(handles) + 1,
              producers |-> Append(producers, [key |-> topic, value |-> Len(handles) + 1]),
              handles |-> Append(handles, NewHandle("producer", topic, None)),
              ctorCalls |-> Invoked(ctorCalls, "producer", topic)]
        ELSE [exc |-> "KafkaKerberosError", kind |-> "Failed to create producer for topic",
              topic |-> topic, handle |-> 0,
              producers |-> producers, handles |-> handles,
              ctorCalls |-> Invoked(ctorCalls, "producer", topic)]

\* Variant: a failed construction resets the consumer cache.
get_consumer_ResetOnFailure(topicArg, ctorOk) ==
    LET topic == TopicOr(topicArg)
    IN  IF topic \in Keys(consumers)
        THEN [exc |-> "", kind |-> "", topic |-> topic, handle |-> Get(consumers, topic),
              consumers |-> consumers, handles |-> handles, ctorCalls |-> ctorCalls]
        ELSE IF ctorOk
        THEN [exc |-> "", kind |-> "", topic |-> topic, handle |-> Len(handles) + 1,
              consumers |-> Append(consumers, [key |-> topic, value |-> Len(handles) + 1]),
              handles |-> Append(handles, NewHandle("consumer", topic, Some(topic))),
              ctorCalls |-> Invoked(ctorCalls, "consumer", topic)]
        ELSE [exc |-> "KafkaKerberosError", kind |-> "Failed to create consumer for topic",
              topic |-> topic, handle |-> 0,
              consumers |-> << >>, handles |-> handles,
              ctorCalls |-> Invoked(ctorCalls, "consumer", topic)]

\* Variant: the cache is not consulted; every call constructs a client and
\* stores it under the topic.
get_consumer_NoCache(topicArg, ctorOk) ==
    LET topic == TopicOr(topicArg)
        kept  == SelectSeq(consumers, LAMBDA e : e.key # topic)
    IN  IF ctorOk
        THEN [exc |-> "", kind |-> "", topic |-> topic, handle |-> Len(handles) + 1,
              consumers |-> Append(kept, [key |-> topic, value |-> Len(handles) + 1]),
              handles |-> Append(handles, NewHandle("consumer", topic, Some(topic))),
              ctorCalls |-> Invoked(ctorCalls, "consumer", topic)]
        ELSE [exc |-> "KafkaKerberosError", kind |-> "Failed to create consumer for topic",
              topic |-> topic, handle |-> 0,
              consumers |-> consumers, handles |-> handles,
              ctorCalls |-> Invoked(ctorCalls, "consumer", topic)]

get_consumer(topicArg, ctorOk) ==
    LET topic == TopicOr(topicArg)
    IN  IF topic \in Keys(consumers)
        THEN [exc |-> "", kind |-> "", topic |-> topic, handle |-> Get(consumers, topic),
              consumers |-> consumers, handles |-> handles, ctorCalls |-> ctorCalls]
        ELSE IF ctorOk
        THEN [exc |-> "", kind |-> "", topic |-> topic, handle |-> Len(handles) + 1,
              consumers |-> Append(consumers, [key |-> topic, value |-> Len(handles) + 1]),
              handles |-> Append(handles, NewHandle("consumer", topic, Some(topic))),
              ctorCalls |-> Invoked(ctorCalls, "consumer", topic)]
        ELSE [exc |-> "KafkaKerberosError", kind |-> "Failed to create consumer for topic",
              topic |-> topic, handle |-> 0,
              consumers |-> consumers, handles |-> handles,
              ctorCalls |-> Invoked(ctorCalls, "consumer", topic)]

(***************************************************************************)
(* consume_messages: the poll loop (lines 398-428).                        *)
(*                                                                         *)
(* What a poll does is [raises, batch]: it raises, or it returns batch, an  *)
(* ordered dict partition -> list of records.  stream is what the          *)
(* successive polls of this call do; once it is used up every further poll *)
(* returns the empty dict.  handler is None or Some(S), a callback that    *)
(* raises on the record values in S.                                       *)
(***************************************************************************)
PollReturns(batch) == [raises |-> FALSE, batch |-> batch]

PollRaises == [raises |-> TRUE, batch |-> << >>]

\* "max_messages and message_count >= max_messages"
\* Variant: "max_messages is not None and ...", so that 0 is a cap.
Capped_ZeroIsCap(max_messages, message_count) ==
    /\ max_messages # None
    /\ message_count >= max_messages[1]

Capped(max_messages, message_count) ==
    /\ max_messages # None
    /\ max_messages[1] # 0
    /\ message_count >= max_messages[1]

\* Lines 406-423: the records of one partition; the break at line 423
\* leaves this loop.
\* Variant: the cap is tested right after the append, so the record that
\* reaches the cap is returned without having been passed to the handler.
RECURSIVE ProcessRecords_SkipHandlerAtCap(_, _, _, _)
ProcessRecords_SkipHandlerAtCap(records, st, max_messages, handler) ==
    IF records = << >> THEN st
    ELSE LET message == Head(records).value
             st0 == [st EXCEPT !.messages = Append(@, message), !.message_count = @ + 1]
             st1 == [st0 EXCEPT
                        !.handled = IF handler # None THEN Append(@, message) ELSE @,
                        !.swallowed = IF handler # None /\ message \in handler[1]
                                      THEN Append(@, message) ELSE @]
         IN  IF Capped(max_messages, st0.message_count)
             THEN st0
             ELSE ProcessRecords_SkipHandlerAtCap(Tail(records), st1, max_messages, handler)

\* Variant: the handler runs before the append, and a record whose handler
\* raised is not appended.
RECURSIVE ProcessRecords_DropOnHandlerError(_, _, _, _)
ProcessRecords_DropOnHandlerError(records, st, max_messages, handler) ==
    IF records = << >> THEN st
    ELSE LET message == Head(records).value
             raised == handler # None /\ message \in handler[1]
             st1 == [st EXCEPT
                        !.messages = IF raised THEN @ ELSE Append(@, message),
                        !.message_count = IF raised THEN @ ELSE @ + 1,
                        !.handled = IF handler # None THEN Append(@, message) ELSE @,
                        !.swallowed = IF raised THEN Append(@, message) ELSE @]
         IN  IF Capped(max_messages, st1.message_count)
             THEN st1
             ELSE ProcessRecords_DropOnHandlerError(Tail(records), st1, max_messages, handler)

RECURSIVE ProcessRecords(_, _, _, _)
ProcessRecords(records, st, max_messages, handler) ==
    IF records = << >> THEN st
    ELSE LET message == Head(records).value
             st1 == [st EXCEPT
                        !.messages = Append(@, message),
                        !.message_count = @ + 1,
                        !.handled = IF handler # None THEN Append(@, message) ELSE @,
                        !.swallowed = IF handler # None /\ message \in handler[1]
                                      THEN Append(@, message) ELSE @]
         IN  IF Capped(max_messages, st1.message_count)
             THEN st1
             ELSE ProcessRecords(Tail(records), st1, max_messages, handler)

\* Line 405: every partition of the poll result, in dict order.
RECURSIVE ProcessBatch(_, _, _, _)
ProcessBatch(message_batch, st, max_messages, handler) ==
    IF message_batch = << >> THEN st
    ELSE ProcessBatch(Tail(message_batch),
                      ProcessRecords(Head(message_batch).value, st, max_messages, handler),
                      max_messages, handler)

\* Lines 399-426.  consumerOpen: poll on a closed consumer raises.
\* Variant: a failing poll is logged and ends the loop; what was accumulated
\* is returned.
RECURSIVE ConsumeLoop_SwallowPoll(_, _, _, _, _)
ConsumeLoop_SwallowPoll(stream, st, max_messages, handler, consumerOpen) ==
    IF Capped(max_messages, st.message_count) THEN st
    ELSE LET poll == IF st.polls < Len(stream) THEN stream[st.polls + 1]
                     ELSE PollReturns(<< >>)
             message_batch == poll.batch
             polled == [st EXCEPT !.polls = @ + 1]
         IN  IF ~consumerOpen \/ poll.raises
             THEN polled
             ELSE LET st1 == ProcessBatch(message_batch, polled, max_messages, handler)
                  IN  IF message_batch = << >> THEN st1
                      ELSE ConsumeLoop_SwallowPoll(stream, st1, max_messages, handler,
                                                   consumerOpen)

\* Variant: the loop is left after the first poll, whatever it returned.
ConsumeLoop_OnePoll(stream, st, max_messages, handler, consumerOpen) ==
    IF Capped(max_messages, st.message_count) THEN st
    ELSE LET poll == IF st.polls < Len(stream) THEN stream[st.polls + 1]
                     ELSE PollReturns(<< >>)
             polled == [st EXCEPT !.polls = @ + 1]
         IN  IF ~consumerOpen \/ poll.raises
             THEN [polled EXCEPT !.exc = "poll failed"]
             ELSE ProcessBatch(poll.batch, polled, max_messages, handler)

RECURSIVE ConsumeLoop(_, _, _, _, _)
ConsumeLoop(stream, st, max_messages, handler, consumerOpen) ==
    IF Capped(max_messages, st.message_count) THEN st
    ELSE LET poll == IF st.polls < Len(stream) THEN stream[st.polls + 1]
                     ELSE PollReturns(<< >>)
             message_batch == poll.batch
             polled == [st EXCEPT !.polls = @ + 1]
         IN  IF ~consumerOpen \/ poll.raises
             THEN [polled EXCEPT !.exc = "poll failed"]
             ELSE LET st1 == ProcessBatch(message_batch, polled, max_messages, handler)
                  IN  IF message_batch = << >> THEN st1
                      ELSE ConsumeLoop(stream, st1, max_messages, handler, consumerOpen)

LoopStart ==
    [messages |-> << >>, message_count |-> 0, polls |-> 0, handled |-> << >>,
     swallowed |-> << >>, exc |-> ""]

(***************************************************************************)
(* Inputs: the environments, config files and filesystems the model        *)
(* starts from.                                                            *)
(***************************************************************************)
KeytabOk   == "/tmp/test.keytab"          \* exists
KeytabBad  == "/nonexistent/keytab"       \* does not exist
CfgPath    == "/tmp/test_config.ini"      \* exists
CfgMissing == "/tmp/missing.ini"          \* does not exist

\* Values a source may give a field (None: the source does not set it).
EnvChoices(k) ==
    CASE k = "bootstrap_servers" -> {None, Some(""), Some("broker1:9092,broker2:9092")}
      [] k = "topic"             -> {None, Some(""), Some("env-topic")}
      [] k = "keytab_path"       -> {None, Some(""), Some(KeytabOk), Some(KeytabBad)}
      [] k = "principal"         -> {None, Some(""), Some("env@EXAMPLE.COM")}
      [] k = "jaas_config_path"  -> {None, Some(""), Some("/etc/kafka/jaas.conf")}
      [] k = "max_poll_records"  ->
            {None, Some(""), Some("1000"), Some(" 42 "), Some("-5"), Some("1_0"), Some("abc")}
      [] k \in NumericFields     -> {None, Some("07"), Some("1.5")}
      [] OTHER                   -> {None, Some(""), Some("env-" \o k)}

FileChoices(k) ==
    CASE k = "bootstrap_servers" -> {None, Some(""), Some("localhost:9092")}
      [] k = "topic"             -> {None, Some("test-topic")}
      [] k = "keytab_path"       -> {None, Some(KeytabOk)}
      [] k = "principal"         -> {None, Some("test@EXAMPLE.COM")}
      [] k = "jaas_config_path"  -> {None, Some("/etc/kafka/file_jaas.conf")}
      [] k = "max_poll_records"  -> {None, Some("250"), Some("5x")}
      [] k \in NumericFields     -> {None, Some("9000")}
      [] OTHER                   -> {None, Some("file-" \o k)}

RequiredSet == {required_params[i] : i \in DOMAIN required_params}

\* The dicts over the keys ks whose values are drawn from choices(k).
Dicts(ks, choices(_)) ==
    {[k \in {f \in ks : o[f] # None} |-> o[k][1]] :
        o \in {g \in [ks -> UNION {choices(k) : k \in ks}] : \A k \in ks : g[k] \in choices(k)}}

EnvOf(d) == [n \in {EnvName(k) : k \in DOMAIN d} |->
                d[CHOOSE k \in DOMAIN d : EnvName(k) = n]]

\* How the config file argument relates to the filesystem.
FileModes == {"none", "emptypath", "missing", "nosection", "section"}

ConfigFileArg(mode) ==
    CASE mode = "none"      -> None
      [] mode = "emptypath" -> Some("")
      [] mode = "missing"   -> Some(CfgMissing)
      [] OTHER              -> Some(CfgPath)

BaseFiles == [p \in {KeytabOk} |-> [kind |-> "keytab"]]

FilesFor(mode, kafkaSection) ==
    CASE mode = "section" ->
            Update(BaseFiles, [p \in {CfgPath} |->
                [kind |-> "ini", sections |-> [s \in {"kafka"} |-> kafkaSection]]])
      [] mode = "nosection" ->
            Update(BaseFiles, [p \in {CfgPath} |->
                [kind |-> "ini", sections |-> [s \in {"other"} |-> EmptyDict]]])
      [] OTHER -> BaseFiles

WithDotenv(files, dotvars) ==
    Update(files, [p \in {DotenvPath} |-> [kind |-> "dotenv", vars |-> dotvars]])

Scenario(dotenv, env, mode, section, writable) ==
    [dotenv |-> dotenv, env |-> env, cf |-> ConfigFileArg(mode),
     fs |-> FilesFor(mode, IF mode = "section" THEN section ELSE EmptyDict),
     writable |-> writable]

OptionalFields == Fields \ RequiredSet

\* A complete environment, as in the repository's tests.
ValidEnv ==
    [KAFKA_BOOTSTRAP_SERVERS |-> "broker1:9092,broker2:9092",
     KAFKA_TOPIC |-> "env-topic",
     KAFKA_KEYTAB_PATH |-> KeytabOk,
     KAFKA_PRINCIPAL |-> "env@EXAMPLE.COM"]

ValidSection ==
    [bootstrap_servers |-> "localhost:9092", topic |-> "test-topic",
     keytab_path |-> KeytabOk, principal |-> "test@EXAMPLE.COM"]

\* Every combination of sources for the four required fields.
RequiredScenarios ==
    {Scenario(TRUE, EnvOf(e), m, f, TRUE) :
        e \in Dicts(RequiredSet, EnvChoices),
        f \in Dicts(RequiredSet, FileChoices),
        m \in {"none", "section"}}

\* Every combination of sources for one optional field, the required
\* fields being complete, partly given or absent.
OptionalScenarios ==
    UNION {
        {Scenario(TRUE, Update(base, EnvOf(e)), m, Update(sec, f), TRUE) :
            e \in Dicts({k}, EnvChoices), f \in Dicts({k}, FileChoices),
            m \in FileModes,
            base \in {ValidEnv, EmptyDict, [KAFKA_TOPIC |-> ""]},
            sec \in {ValidSection, EmptyDict}}
        : k \in OptionalFields}

\* Variables given by a .env file, an unwritable /tmp, a missing dotenv module.
OtherScenarios ==
    {[dotenv |-> d, env |-> e, cf |-> ConfigFileArg(m),
      fs |-> WithDotenv(FilesFor(m, ValidSection), dv), writable |-> w] :
        d \in BOOLEAN, w \in BOOLEAN, m \in {"none", "section"},
        e \in {EmptyDict, ValidEnv, [KAFKA_TOPIC |-> "env-topic"]},
        dv \in {EmptyDict,
                [KAFKA_TOPIC |-> "dotenv-topic", KAFKA_PRINCIPAL |-> "dot@EXAMPLE.COM"]}}

ResolveScenarios == RequiredScenarios \cup OptionalScenarios \cup OtherScenarios

\* No consume loop is being followed.
NoLoop == [pc |-> "idle", max_messages |-> None, message_count |-> 0, polls |-> 0,
           reason |-> ""]

InitFrom(scenarios, streams) ==
    /\ \E sc \in scenarios :
          /\ DOTENV_AVAILABLE = sc.dotenv
          /\ environ = sc.env
          /\ config_file = sc.cf
          /\ fs = sc.fs
          /\ tmpWritable = sc.writable
    /\ status = "new"
    /\ config = EmptyDict
    /\ initError = None
    /\ producers = << >>
    /\ consumers = << >>
    /\ handles = << >>
    /\ ctorCalls = [k \in {} |-> 0]
    /\ incoming \in streams
    /\ ret = NoCall
    /\ sessions = << >>
    /\ loop = NoLoop

(***************************************************************************)
(* SpecResolve: session construction over every input scenario.            *)
(***************************************************************************)
InitResolve == InitFrom(ResolveScenarios, {<< >>})

NextResolve == Construct

SpecResolve == InitResolve /\ [][NextResolve]_vars

(***************************************************************************)
(* Properties of configuration resolution and validation (SpecResolve).    *)
(***************************************************************************)
Range(seq) == {seq[i] : i \in DOMAIN seq}

MissingRequired == "Missing required configuration parameters"
KeytabNotFound  == "Keytab file not found"
EmptyBrokerList == "Bootstrap servers cannot be empty"

\* __init__ has run and _load_config returned (no AttributeError at line 83,
\* no ValueError from int()), so self.config holds the resolved configuration.
Resolved ==
    /\ status # "new"
    /\ ret.op = "__init__"
    /\ ret.exc \notin {"AttributeError", "ValueError"}

\* The [kafka] section of the config file the session was given, if any.
FileKafka ==
    IF config_file # None /\ config_file[1] \in DOMAIN fs /\ fs[config_file[1]].kind = "ini"
       /\ "kafka" \in DOMAIN fs[config_file[1]].sections
    THEN fs[config_file[1]].sections["kafka"]
    ELSE EmptyDict

\* The value the precedence rule environment > file > default gives field k.
Precedence(k) ==
    IF EnvName(k) \in DOMAIN environ THEN Some(environ[EnvName(k)])
    ELSE IF k \in DOMAIN FileKafka THEN Some(FileKafka[k])
    ELSE IF k = "service_name" THEN Some("kafka")
    ELSE IF k = "consumer_group_id" THEN Some("kafka-utility-group")
    ELSE IF k = "auto_offset_reset" THEN Some("earliest")
    ELSE IF k = "max_poll_records" THEN Some("500")
    ELSE IF k = "session_timeout_ms" THEN Some("30000")
    ELSE IF k = "heartbeat_interval_ms" THEN Some("3000")
    ELSE None

\* _create_jaas_config has replaced the resolved jaas_config_path.
JaasGenerated == JaasPath \in DOMAIN fs

\* C1: whenever _load_config returns, every recognized field holds the
\* environment value if the variable is present (the empty string included),
\* else the file's [kafka] value, else the documented default, the three
\* numeric fields as the integer their text denotes; a field with no source
\* and no default is absent.  (jaas_config_path is compared until
\* _create_jaas_config overwrites it.)
C1_Precedence ==
    Resolved =>
        \A k \in Fields :
            \/ k = "jaas_config_path" /\ JaasGenerated
            \/ /\ Precedence(k) = None <=> k \notin DOMAIN config
               /\ Precedence(k) # None =>
                     IF k \in NumericFields
                     THEN config[k] = IntValue(Precedence(k)[1])
                     ELSE config[k] = Precedence(k)[1]

\* An empty environment value has overridden a non-empty file value, and a
\* numeric default was applied.
C1_Witness ==
    /\ Resolved
    /\ "KAFKA_BOOTSTRAP_SERVERS" \in DOMAIN environ
    /\ environ["KAFKA_BOOTSTRAP_SERVERS"] = ""
    /\ "bootstrap_servers" \in DOMAIN FileKafka
    /\ FileKafka["bootstrap_servers"] = "localhost:9092"
    /\ config["bootstrap_servers"] = ""
    /\ config["max_poll_records"] = 500

\* Required fields no source mentions.
AbsentFromBoth ==
    {k \in RequiredSet : EnvName(k) \notin DOMAIN environ /\ k \notin DOMAIN FileKafka}

\* Required fields no source mentions or whose winning source gives "".
AbsentOrEmpty ==
    {k \in RequiredSet : Precedence(k) = None \/ Precedence(k) = Some("")}

\* C2 as stated: the missing-required error lists exactly the required
\* fields absent from both sources.
C2_Original ==
    (Resolved /\ AbsentFromBoth # {}) =>
        /\ ret.kind = MissingRequired
        /\ Range(ret.fields) = AbsentFromBoth

\* C2 (amended): when resolution succeeds, validation fails with the
\* missing-required error exactly when some required field is absent from
\* both sources or resolves to the empty string, and the error lists exactly
\* those fields, each once.
C2_MissingExactlyAbsentOrEmpty ==
    Resolved =>
        /\ ret.kind = MissingRequired <=> AbsentOrEmpty # {}
        /\ ret.kind = MissingRequired =>
              /\ ret.exc = "KafkaKerberosError"
              /\ Range(ret.fields) = AbsentOrEmpty
              /\ Len(ret.fields) = Cardinality(AbsentOrEmpty)

\* Two fields absent from both sources and a third supplied as "": all three reported.
C2_Witness ==
    /\ Resolved
    /\ AbsentFromBoth = {"keytab_path", "principal"}
    /\ ret.kind = MissingRequired
    /\ ret.fields = <<"topic", "keytab_path", "principal">>

NonEmpty(k) == k \in DOMAIN config /\ config[k] # ""

ValidationErrors == {MissingRequired, KeytabNotFound, EmptyBrokerList}

\* C3: with bootstrap_servers, topic and principal non-empty, validation
\* fails with keytab-not-found exactly when keytab_path names a path that
\* does not exist, and passes when it names an existing file.
C3_KeytabNotFound ==
    (Resolved /\ NonEmpty("bootstrap_servers") /\ NonEmpty("topic") /\ NonEmpty("principal")) =>
        /\ ret.kind = KeytabNotFound <=>
              (NonEmpty("keytab_path") /\ config["keytab_path"] \notin DOMAIN fs)
        /\ (NonEmpty("keytab_path") /\ config["keytab_path"] \in DOMAIN fs) =>
              ret.kind \notin ValidationErrors

C3_Witness ==
    /\ Resolved
    /\ NonEmpty("bootstrap_servers") /\ NonEmpty("topic") /\ NonEmpty("principal")
    /\ NonEmpty("keytab_path")
    /\ config["keytab_path"] = KeytabBad
    /\ ret.exc = "KafkaKerberosError"
    /\ ret.kind = KeytabNotFound
    /\ ret.fields = <<KeytabBad>>

\* bootstrap_servers is present in the resolved configuration as the empty
\* string and the other required fields are valid.
EmptyBrokerCase ==
    /\ Resolved
    /\ "bootstrap_servers" \in DOMAIN config
    /\ config["bootstrap_servers"] = ""
    /\ NonEmpty("topic") /\ NonEmpty("principal") /\ NonEmpty("keytab_path")
    /\ config["keytab_path"] \in DOMAIN fs

\* C4 as stated: an empty broker list fails with the distinct error.
C4_Original == EmptyBrokerCase => ret.kind = EmptyBrokerList

\* C4 (amended): an empty broker list fails validation with the
\* missing-required error naming bootstrap_servers, and the
\* "Bootstrap servers cannot be empty" error is never raised.
C4_EmptyBrokerIsMissing ==
    /\ EmptyBrokerCase =>
          /\ ret.exc = "KafkaKerberosError"
          /\ ret.kind = MissingRequired
          /\ ret.fields = <<"bootstrap_servers">>
    /\ ret.kind # EmptyBrokerList

C4_Witness ==
    /\ EmptyBrokerCase
    /\ status = "failed"
    /\ ret.fields = <<"bootstrap_servers">>

\* C5: a required field whose environment variable is the empty string is
\* reported by the missing-required error, whatever the file says.
C5_EmptyEnvIsMissing ==
    Resolved =>
        \A k \in RequiredSet :
            (EnvName(k) \in DOMAIN environ /\ environ[EnvName(k)] = "") =>
                /\ status = "failed"
                /\ ret.exc = "KafkaKerberosError"
                /\ ret.kind = MissingRequired
                /\ k \in Range(ret.fields)

\* The test's case, with a config file that does give the brokers.
C5_Witness ==
    /\ Resolved
    /\ "KAFKA_BOOTSTRAP_SERVERS" \in DOMAIN environ
    /\ environ["KAFKA_BOOTSTRAP_SERVERS"] = ""
    /\ "bootstrap_servers" \in DOMAIN FileKafka
    /\ FileKafka["bootstrap_servers"] # ""
    /\ AbsentOrEmpty = {"bootstrap_servers"}
    /\ ret.kind = MissingRequired

(***************************************************************************)
(* Bounds and inputs of the session operations.                            *)
(***************************************************************************)
MaxCtorCalls  == 2   \* client constructor invocations in one behaviour
MaxPolls      == 2   \* poll results scripted before the polls run dry
MaxPartitions == 2   \* partitions in one poll result
MaxRecords    == 2   \* records of one partition in one poll result
MaxCap        == 3   \* largest max_messages

SeqsUpTo(S, n) == UNION {[1..k -> S] : k \in 0..n}

\* The topic argument: absent, empty, the configured topic, another topic.
TopicArgs == {None, Some(""), Some("env-topic"), Some("orders")}

RECURSIVE Sum(_)
Sum(ns) == IF ns = << >> THEN 0 ELSE Head(ns) + Sum(Tail(ns))

\* A stream shape gives, for each poll, whether it raises and else the
\* number of records of each partition it returns (no partition comes with
\* an empty list).  Records are valued 1, 2, 3, ... in arrival order: poll
\* by poll, partition by partition, record by record.
BatchShapes ==
    {PollReturns(sizes) : sizes \in SeqsUpTo(1..MaxRecords, MaxPartitions)} \cup {PollRaises}

ArrivedBefore(shapes, b, p) ==
    Sum([i \in 1..(b - 1) |-> Sum(shapes[i].batch)]) + Sum(SubSeq(shapes[b].batch, 1, p - 1))

StreamOf(shapes) ==
    [b \in DOMAIN shapes |->
        [raises |-> shapes[b].raises,
         batch  |-> [p \in DOMAIN shapes[b].batch |->
                      [key |-> p,
                       value |-> [j \in 1..shapes[b].batch[p] |->
                                    [partition |-> p, offset |-> j,
                                     value |-> ArrivedBefore(shapes, b, p) + j]]]]]]

Streams == {StreamOf(sh) : sh \in SeqsUpTo(BatchShapes, MaxPolls)}

Caps == {None} \cup {Some(n) : n \in 0..MaxCap}

Handlers == {None, Some({}), Some({2})}

(***************************************************************************)
(* The public operations of a constructed session.                         *)
(***************************************************************************)
RECURSIVE SumOver(_, _)
SumOver(f, ks) ==
    IF ks = {} THEN 0
    ELSE LET k == CHOOSE x \in ks : TRUE IN f[k] + SumOver(f, ks \ {k})

MayConstruct == SumOver(ctorCalls, DOMAIN ctorCalls) < MaxCtorCalls

\* What the client constructor may do in a call: it is invoked only when
\* the topic is not cached.
CtorOutcomes(cache, topicArg) ==
    IF TopicOr(topicArg) \in Keys(cache) THEN {TRUE} ELSE BOOLEAN

\* Variant: the resolved topic is stored back as the default topic.
GetProducer_StoresTopic ==
    /\ status = "ready"
    /\ \E topicArg \in TopicArgs :
       \E ctorOk \in CtorOutcomes(producers, topicArg) :
          LET r == get_producer(topicArg, ctorOk)
          IN  /\ r.ctorCalls # ctorCalls => MayConstruct
              /\ producers' = r.producers
              /\ handles' = r.handles
              /\ ctorCalls' = r.ctorCalls
              /\ config' = [config EXCEPT !["topic"] = r.topic]
              /\ ret' = [NoCall EXCEPT !.op = "get_producer", !.topic = r.topic,
                                       !.arg = topicArg,
                                       !.exc = r.exc, !.kind = r.kind, !.handle = r.handle,
                                       !.value = IF r.exc = "" THEN "handle" ELSE ""]
    /\ UNCHANGED <<sessions, loop, DOTENV_AVAILABLE, environ, config_file, fs, tmpWritable, status,
                   initError, consumers, incoming>>

GetProducer ==
    /\ status = "ready"
    /\ \E topicArg \in TopicArgs :
       \E ctorOk \in CtorOutcomes(producers, topicArg) :
          LET r == get_producer(topicArg, ctorOk)
          IN  /\ r.ctorCalls # ctorCalls => MayConstruct
              /\ producers' = r.producers
              /\ handles' = r.handles
              /\ ctorCalls' = r.ctorCalls
              /\ ret' = [NoCall EXCEPT !.op = "get_producer", !.topic = r.topic,
                                       !.arg = topicArg,
                                       !.exc = r.exc, !.kind = r.kind, !.handle = r.handle,
                                       !.value = IF r.exc = "" THEN "handle" ELSE ""]
    /\ UNCHANGED <<sessions, loop, DOTENV_AVAILABLE, environ, config_file, fs, tmpWritable, status,
                   config, initError, consumers, incoming>>

GetConsumer ==
    /\ status = "ready"
    /\ \E topicArg \in TopicArgs :
       \E ctorOk \in CtorOutcomes(consumers, topicArg) :
          LET r == get_consumer(topicArg, ctorOk)
          IN  /\ r.ctorCalls # ctorCalls => MayConstruct
              /\ consumers' = r.consumers
              /\ handles' = r.handles
              /\ ctorCalls' = r.ctorCalls
              /\ ret' = [NoCall EXCEPT !.op = "get_consumer", !.topic = r.topic,
                                       !.arg = topicArg,
                                       !.exc = r.exc, !.kind = r.kind, !.handle = r.handle,
                                       !.value = IF r.exc = "" THEN "handle" ELSE ""]
    /\ UNCHANGED <<sessions, loop, DOTENV_AVAILABLE, environ, config_file, fs, tmpWritable, status,
                   config, initError, producers, incoming>>

\* produce_message (lines 354-371).  sendResult is what producer.send and
\* future.get(timeout=10) do: "acked", "rejected" (send or get raises) or
\* "timeout"; a closed producer does not accept the send.  send is what
\* became of the send ("" when no producer was obtained).
\* Variant: a failure is reported by returning False, as the docstring has it.
produce_message_ReturnsFalse(topicArg, ctorOk, sendResult) ==
    LET r    == get_producer(topicArg, ctorOk)
        send == IF r.exc # "" THEN ""
                ELSE IF ~r.handles[r.handle].open THEN "rejected"
                ELSE sendResult
    IN  [exc |-> "", kind |-> "",
         value |-> IF send = "acked" THEN "True" ELSE "False",
         send |-> send, topic |-> r.topic, handle |-> r.handle,
         producers |-> r.producers, handles |-> r.handles, ctorCalls |-> r.ctorCalls]

produce_message(topicArg, ctorOk, sendResult) ==
    LET r    == get_producer(topicArg, ctorOk)
        send == IF r.exc # "" THEN ""
                ELSE IF ~r.handles[r.handle].open THEN "rejected"
                ELSE sendResult
        sent == send = "acked"
    IN  [exc |-> IF sent THEN "" ELSE "KafkaKerberosError",
         kind |-> IF sent THEN "" ELSE "Message production failed",
         value |-> IF sent THEN "True" ELSE "",
         send |-> send, topic |-> r.topic, handle |-> r.handle,
         producers |-> r.producers, handles |-> r.handles, ctorCalls |-> r.ctorCalls]

ProduceMessage ==
    /\ status = "ready"
    /\ \E topicArg \in TopicArgs, sendResult \in {"acked", "rejected", "timeout"} :
       \E ctorOk \in CtorOutcomes(producers, topicArg) :
          LET r == produce_message(topicArg, ctorOk, sendResult)
          IN  /\ r.ctorCalls # ctorCalls => MayConstruct
              /\ producers' = r.producers
              /\ handles' = r.handles
              /\ ctorCalls' = r.ctorCalls
              /\ ret' = [NoCall EXCEPT
                            !.op = "produce_message", !.topic = r.topic, !.handle = r.handle,
                            !.arg = topicArg,
                            !.exc = r.exc, !.kind = r.kind, !.value = r.value,
                            !.send = r.send]
    /\ UNCHANGED <<sessions, loop, DOTENV_AVAILABLE, environ, config_file, fs, tmpWritable, status,
                   config, initError, consumers, incoming>>

\* consume_messages (lines 392-432).  The polls the call makes take the
\* poll results off the front of incoming.
\* Variant: a failing poll ends the call with what was accumulated so far.
ConsumeMessages_ReturnsPartial(topicArgs, caps, handlers) ==
    /\ status = "ready"
    /\ \E topicArg \in topicArgs, max_messages \in caps, handler \in handlers :
       \E ctorOk \in CtorOutcomes(consumers, topicArg) :
          LET r  == get_consumer(topicArg, ctorOk)
              st == IF r.exc # "" THEN [LoopStart EXCEPT !.exc = r.kind]
                    ELSE ConsumeLoop(incoming, LoopStart, max_messages, handler,
                                     r.handles[r.handle].open)
          IN  /\ r.ctorCalls # ctorCalls => MayConstruct
              /\ consumers' = r.consumers
              /\ handles' = r.handles
              /\ ctorCalls' = r.ctorCalls
              /\ incoming' = SubSeq(incoming, st.polls + 1, Len(incoming))
              /\ ret' = [NoCall EXCEPT
                            !.op = "consume_messages", !.topic = r.topic, !.handle = r.handle,
                            !.arg = topicArg,
                            !.exc = IF r.exc = "" THEN "" ELSE "KafkaKerberosError",
                            !.kind = IF r.exc = "" THEN "" ELSE "Message consumption failed",
                            !.value = IF r.exc = "" THEN "list" ELSE "",
                            !.messages = st.messages,
                            !.polls = st.polls,
                            !.handled = st.handled,
                            !.swallowed = st.swallowed,
                            !.cap = max_messages,
                            !.handler = handler,
                            !.stream = incoming]
    /\ UNCHANGED <<sessions, loop, DOTENV_AVAILABLE, environ, config_file, fs, tmpWritable, status,
                   config, initError, producers>>

ConsumeMessages(topicArgs, caps, handlers) ==
    /\ status = "ready"
    /\ \E topicArg \in topicArgs, max_messages \in caps, handler \in handlers :
       \E ctorOk \in CtorOutcomes(consumers, topicArg) :
          LET r  == get_consumer(topicArg, ctorOk)
              st == IF r.exc # "" THEN [LoopStart EXCEPT !.exc = r.kind]
                    ELSE ConsumeLoop(incoming, LoopStart, max_messages, handler,
                                     r.handles[r.handle].open)
          IN  /\ r.ctorCalls # ctorCalls => MayConstruct
              /\ consumers' = r.consumers
              /\ handles' = r.handles
              /\ ctorCalls' = r.ctorCalls
              /\ incoming' = SubSeq(incoming, st.polls + 1, Len(incoming))
              /\ ret' = [NoCall EXCEPT
                            !.op = "consume_messages", !.topic = r.topic, !.handle = r.handle,
                            !.arg = topicArg,
                            !.exc = IF st.exc = "" THEN "" ELSE "KafkaKerberosError",
                            !.kind = IF st.exc = "" THEN "" ELSE "Message consumption failed",
                            !.value = IF st.exc = "" THEN "list" ELSE "",
                            !.messages = IF st.exc = "" THEN st.messages ELSE << >>,
                            !.polls = st.polls,
                            !.handled = st.handled,
                            !.swallowed = st.swallowed,
                            !.cap = max_messages,
                            !.handler = handler,
                            !.stream = incoming]
    /\ UNCHANGED <<sessions, loop, DOTENV_AVAILABLE, environ, config_file, fs, tmpWritable, status,
                   config, initError, producers>>

(***************************************************************************)
(* close (lines 434-451).  raising is the set of client objects whose      *)
(* close() raises; the first of them, in iteration order, ends the try     *)
(* block, so the objects after it are not closed and the caches are not    *)
(* cleared.  Whether the object whose close() raised is still open is not  *)
(* determined (stillOpen).                                                 *)
(***************************************************************************)
CloseOrder == Values(producers) \o Values(consumers)

\* Number of objects close() is invoked on.
CloseReach(raising) ==
    IF \E i \in DOMAIN CloseOrder : CloseOrder[i] \in raising
    THEN CHOOSE i \in DOMAIN CloseOrder :
            /\ CloseOrder[i] \in raising
            /\ \A j \in 1..(i - 1) : CloseOrder[j] \notin raising
    ELSE Len(CloseOrder)

\* The first raising close() ends the call, so what close() does is
\* determined by which client, if any, is the first to raise.
CloseFailures == {{}} \cup {{h} : h \in Range(CloseOrder)}

\* Variant: the caches are cleared without close() being invoked on the clients.
close_ClearOnly(raising, stillOpen) ==
    [handles |-> handles, producers |-> << >>, consumers |-> << >>, logged |-> FALSE]

close(raising, stillOpen) ==
    LET n       == CloseReach(raising)
        invoked == {CloseOrder[i] : i \in 1..n}
        failed  == \E i \in DOMAIN CloseOrder : CloseOrder[i] \in raising
    IN  [handles |-> [h \in DOMAIN handles |->
                        IF h \in invoked
                        THEN [handles[h] EXCEPT
                                !.closeCalled = TRUE,
                                !.open = IF h \in raising THEN stillOpen /\ @ ELSE FALSE]
                        ELSE handles[h]],
         producers |-> IF failed THEN producers ELSE << >>,
         consumers |-> IF failed THEN consumers ELSE << >>,
         logged |-> failed]

Close ==
    /\ status = "ready"
    /\ \E raising \in CloseFailures :
       \E stillOpen \in (IF raising = {} THEN {FALSE} ELSE BOOLEAN) :
          LET r == close(raising, stillOpen)
          IN  /\ handles' = r.handles
              /\ producers' = r.producers
              /\ consumers' = r.consumers
              /\ ret' = [NoCall EXCEPT !.op = "close", !.value = "None",
                                       !.kind = IF r.logged THEN "Error closing connections"
                                                ELSE ""]
    /\ UNCHANGED <<sessions, loop, DOTENV_AVAILABLE, environ, config_file, fs, tmpWritable, status,
                   config, initError, ctorCalls, incoming>>

(***************************************************************************)
(* The context manager (lines 453-459).  "with session: block" calls       *)
(* __enter__, runs the block, and calls __exit__ with the exception the    *)
(* block raised (exc_type, None when it completed); the exception goes on  *)
(* to the caller unless __exit__ returns a true value.                     *)
(***************************************************************************)
Truthy(value) == value \notin {"None", "False", ""}

Enter ==
    /\ status = "ready"
    /\ ret' = [NoCall EXCEPT !.op = "__enter__", !.value = "self"]
    /\ UNCHANGED <<sessions, loop, DOTENV_AVAILABLE, environ, config_file, fs, tmpWritable, status,
                   config, initError, producers, consumers, handles, ctorCalls, incoming>>

\* Variant: __exit__ returns without calling close().
__exit___NoClose(exc_type, raising, stillOpen) ==
    [handles |-> handles, producers |-> producers, consumers |-> consumers,
     logged |-> FALSE, value |-> "None"]

__exit__(exc_type, raising, stillOpen) ==
    LET r == close(raising, stillOpen)
    IN  [handles |-> r.handles, producers |-> r.producers, consumers |-> r.consumers,
         logged |-> r.logged, value |-> "None"]

\* Leaving the with block.  ret.fields is the exception the block raised,
\* ret.exc the exception the caller of the with statement gets.
Exit ==
    /\ status = "ready"
    /\ \E exc_type \in {None, Some("RuntimeError")}, raising \in CloseFailures :
       \E stillOpen \in (IF raising = {} THEN {FALSE} ELSE BOOLEAN) :
          LET r == __exit__(exc_type, raising, stillOpen)
          IN  /\ handles' = r.handles
              /\ producers' = r.producers
              /\ consumers' = r.consumers
              /\ ret' = [NoCall EXCEPT
                            !.op = "__exit__", !.value = r.value, !.fields = exc_type,
                            !.exc = IF exc_type # None /\ ~Truthy(r.value)
                                    THEN exc_type[1] ELSE "",
                            !.kind = IF r.logged THEN "Error closing connections" ELSE ""]
    /\ UNCHANGED <<sessions, loop, DOTENV_AVAILABLE, environ, config_file, fs, tmpWritable, status,
                   config, initError, ctorCalls, incoming>>

(***************************************************************************)
(* Spec: the life cycle of one session.                                    *)
(***************************************************************************)
SessionScenarios ==
    {[dotenv |-> TRUE,  env |-> ValidEnv, cf |-> None, fs |-> BaseFiles, writable |-> TRUE],
     [dotenv |-> TRUE,  env |-> ValidEnv, cf |-> None, fs |-> BaseFiles, writable |-> FALSE],
     [dotenv |-> FALSE, env |-> ValidEnv, cf |-> None, fs |-> BaseFiles, writable |-> TRUE],
     [dotenv |-> TRUE,  env |-> [KAFKA_TOPIC |-> ""], cf |-> Some(CfgPath),
      fs |-> FilesFor("section", ValidSection), writable |-> TRUE],
     [dotenv |-> TRUE,  env |-> [KAFKA_MAX_POLL_RECORDS |-> "abc"], cf |-> Some(CfgPath),
      fs |-> FilesFor("section", ValidSection), writable |-> TRUE]}

\* The few poll scripts used while the whole life cycle is explored.
SessionStreams ==
    {StreamOf(sh) : sh \in {<<PollReturns(<<1, 1>>)>>, <<PollRaises>>}}

Init == InitFrom(SessionScenarios, SessionStreams)

Consume == ConsumeMessages(TopicArgs, {None}, {None, Some({1})})

Next ==
    \/ Construct
    \/ GetProducer
    \/ GetConsumer
    \/ ProduceMessage
    \/ Consume
    \/ Close
    \/ Enter
    \/ Exit

Spec == Init /\ [][Next]_vars

(***************************************************************************)
(* SpecConsume: one session consuming, over every poll script, cap and     *)
(* handler.                                                                *)
(***************************************************************************)
InitConsume == InitFrom(SessionScenarios, Streams)

ConsumeAny == ConsumeMessages({None}, Caps, Handlers)

NextConsume == Construct \/ ConsumeAny

SpecConsume == InitConsume /\ [][NextConsume]_vars

(***************************************************************************)
(* Properties of the handle caches (Spec).                                 *)
(***************************************************************************)
Roles == {"producer", "consumer"}

Cache(role) == IF role = "producer" THEN producers ELSE consumers

\* The cache of a role after the step.
CacheNext(role) == IF role = "producer" THEN producers' ELSE consumers'

\* The topics a call can resolve to.
Topics == {"env-topic", "orders"}

\* Client objects constructed for (role, topic).
Constructed(role, topic) ==
    {h \in DOMAIN handles : handles[h].role = role /\ handles[h].topic = topic}

\* A get_producer/get_consumer call has just returned a handle.
GotHandle(r) ==
    /\ r.op \in {"get_producer", "get_consumer"}
    /\ r.exc = ""

RoleOf(op) == IF op = "get_producer" THEN "producer" ELSE "consumer"

\* C6: a successful get_producer/get_consumer returns the handle the cache
\* holds for the topic; as long as close is not called the cache keeps that
\* handle, so a later successful call for the same topic returns the
\* identical handle, and the constructor is not invoked again for it.
C6_SameHandleOneConstruction ==
    /\ [](GotHandle(ret) =>
            /\ ret.topic \in Keys(Cache(RoleOf(ret.op)))
            /\ Get(Cache(RoleOf(ret.op)), ret.topic) = ret.handle)
    /\ [][ret'.op \notin {"close", "__exit__"} =>
            \A role \in Roles : \A t \in Keys(Cache(role)) :
                /\ t \in Keys(CacheNext(role))
                /\ Get(CacheNext(role), t) = Get(Cache(role), t)
                /\ CtorCount(ctorCalls', role, t) = CtorCount(ctorCalls, role, t)
                /\ (GotHandle(ret') /\ RoleOf(ret'.op) = role /\ ret'.topic = t) =>
                       ret'.handle = Get(Cache(role), t)]_vars

\* get_producer returned a handle that is not the latest client constructed:
\* the call was answered from the cache, after one constructor invocation.
C6_Witness ==
    /\ ret.op = "get_producer"
    /\ ret.exc = ""
    /\ ret.handle # 0
    /\ ret.handle < Len(handles)
    /\ CtorCount(ctorCalls, "producer", ret.topic) = 1

\* C7 as stated: over the whole life of the session, close calls included,
\* at most one client is constructed per (role, topic).
C7_Original ==
    \A role \in Roles : \A t \in Topics : Cardinality(Constructed(role, t)) <= 1

\* C7 (amended): a client is constructed only by a call that finds no handle
\* cached for its (role, topic), one per call, so at most once per (role,
\* topic) until a close() empties the caches (after which a later call
\* constructs a new client for the same topic); and a client is released
\* only by close() (which __exit__ calls).
C7_ConstructOnMissReleaseOnClose ==
    [][/\ Len(handles') >= Len(handles)
       /\ Len(handles') <= Len(handles) + 1
       /\ Len(handles') = Len(handles) + 1 =>
             LET h == handles'[Len(handles')]
             IN  /\ h.open /\ ~h.closeCalled
                 /\ h.topic \notin Keys(Cache(h.role))
                 /\ Get(CacheNext(h.role), h.topic) = Len(handles')
       /\ \A i \in DOMAIN handles :
             handles'[i] # handles[i] =>
                /\ ret'.op \in {"close", "__exit__"}
                /\ handles'[i].closeCalled]_vars

\* A second client was constructed for the same (role, topic) after a close.
C7_Witness ==
    \E role \in Roles : \E t \in Topics :
        /\ Cardinality(Constructed(role, t)) = 2
        /\ t \in Keys(Cache(role))
        /\ \E h \in Constructed(role, t) : handles[h].closeCalled /\ ~handles[h].open

\* C8: per topic at most one producer and at most one consumer is open.
C8_OneOpenHandlePerTopic ==
    \A role \in Roles : \A t \in Topics :
        Cardinality({h \in Constructed(role, t) : handles[h].open}) <= 1

\* Two clients were constructed for one (role, topic); one of them is open.
C8_Witness ==
    \E role \in Roles : \E t \in Topics :
        /\ Cardinality(Constructed(role, t)) = 2
        /\ Cardinality({h \in Constructed(role, t) : handles[h].open}) = 1

(***************************************************************************)
(* Properties of the consume loop (SpecConsume).                           *)
(***************************************************************************)
\* Number of leading polls of the stream that return records.
RECURSIVE Leading(_)
Leading(stream) ==
    IF stream = << >> \/ Head(stream).raises \/ Head(stream).batch = << >> THEN 0
    ELSE 1 + Leading(Tail(stream))

\* The record values of a poll result, partition by partition.
RECURSIVE BatchValues(_)
BatchValues(batch) ==
    IF batch = << >> THEN << >>
    ELSE [j \in DOMAIN Head(batch).value |-> Head(batch).value[j].value]
            \o BatchValues(Tail(batch))

\* The record values of the first n polls, in arrival order.
RECURSIVE Arrived(_, _)
Arrived(stream, n) ==
    IF n = 0 THEN << >> ELSE Arrived(stream, n - 1) \o BatchValues(stream[n].batch)

\* The records that arrive before the first poll that returns none.
ArrivedBeforeEmpty(stream) == Arrived(stream, Leading(stream))

\* The least number of polls that deliver n records.
PollsFor(stream, n) ==
    CHOOSE p \in 1..Leading(stream) :
        /\ Len(Arrived(stream, p)) >= n
        /\ \A q \in 1..(p - 1) : Len(Arrived(stream, q)) < n

\* consume_messages obtained its consumer and the polls were made of ret.stream.
Consumed == ret.op = "consume_messages" /\ ret.handle # 0

\* C9 as stated: with max_messages = n >= 1 and at least n records arriving
\* before an empty poll, exactly the first n records are returned and no
\* poll is made after the n-th was accumulated.
C9_Original ==
    (Consumed /\ ret.cap # None /\ ret.cap[1] >= 1
        /\ Len(ArrivedBeforeEmpty(ret.stream)) >= ret.cap[1]) =>
            /\ ret.exc = ""
            /\ ret.messages = SubSeq(ArrivedBeforeEmpty(ret.stream), 1, ret.cap[1])
            /\ ret.polls = PollsFor(ret.stream, ret.cap[1])

\* The poll that follows the leading polls returns the empty dict.
EndsWithEmptyPoll(stream) ==
    Leading(stream) = Len(stream) \/ ~stream[Leading(stream) + 1].raises

\* C10: with max_messages = n and only k < n records arriving before a poll
\* returns none, exactly those k records are returned, in order, and the
\* poll that returned none is the last poll made.
C10_StopsAtFirstEmptyPoll ==
    (Consumed /\ ret.cap # None /\ ret.cap[1] >= 1
        /\ EndsWithEmptyPoll(ret.stream)
        /\ Len(ArrivedBeforeEmpty(ret.stream)) < ret.cap[1]) =>
            /\ ret.exc = ""
            /\ ret.messages = ArrivedBeforeEmpty(ret.stream)
            /\ ret.polls = Leading(ret.stream) + 1

\* Two records arrive in two polls, the cap is 3: both are returned after
\* three polls.
C10_Witness ==
    /\ Consumed
    /\ ret.cap = Some(3)
    /\ Leading(ret.stream) = 2
    /\ Len(ret.messages) = 2
    /\ ret.polls = 3
    /\ ret.exc = ""

\* No poll the call made raised.
NoPollRaised ==
    \A i \in 1..ret.polls : i <= Len(ret.stream) => ~ret.stream[i].raises

\* What the same call returns when no handler is given.
WithoutHandler == ConsumeLoop(ret.stream, LoopStart, ret.cap, None, TRUE)

\* C11: when the handler raises on a record and no poll fails, the call
\* returns normally; the record is in the returned list; the handler was
\* still invoked on every returned record, those after the raising one
\* included; and the returned list and the number of polls are what the call
\* yields with no handler at all.
C11_HandlerErrorDoesNotAbort ==
    (Consumed /\ ret.swallowed # << >> /\ NoPollRaised) =>
        /\ ret.exc = ""
        /\ ret.value = "list"
        /\ Range(ret.swallowed) \subseteq Range(ret.messages)
        /\ ret.handled = ret.messages
        /\ ret.messages = WithoutHandler.messages
        /\ ret.polls = WithoutHandler.polls

\* The handler raised on record 2; records of the same batch and of a later
\* poll were still returned.
C11_Witness ==
    /\ Consumed
    /\ ret.swallowed = <<2>>
    /\ ret.exc = ""
    /\ Len(ret.stream) = 2
    /\ Len(ret.stream[1].batch) = 2
    /\ ret.messages = <<1, 2, 3, 4>>
    /\ ret.polls = 3

C13_Original ==
    ret.op = "close" =>
        /\ producers = << >>
        /\ consumers = << >>
        /\ \A h \in DOMAIN handles : handles[h].closeCalled

\* The clients the two caches hold.
Cached == Range(Values(producers)) \cup Range(Values(consumers))

\* C14: leaving the with block runs close(): close is invoked on the cached
\* clients and the caches are emptied, or, when a client's close raised, the
\* error is logged after close was invoked on the first cached client at
\* least.  This happens whether the block completed or raised, and an
\* exception the block raised is the exception the caller gets.
C14_ExitClosesAndPropagates ==
    [][ret'.op = "__exit__" =>
          /\ ret'.kind # "Error closing connections" =>
                /\ producers' = << >>
                /\ consumers' = << >>
                /\ \A h \in Cached : handles'[h].closeCalled
          /\ ret'.kind = "Error closing connections" =>
                handles'[Head(CloseOrder)].closeCalled
          /\ ret'.fields = << >> => ret'.exc = ""
          /\ ret'.fields # << >> => ret'.exc = ret'.fields[1]]_vars

\* The block raised with a client cached: the client was closed, the caches
\* are empty and the exception reached the caller.
C14_Witness ==
    /\ ret.op = "__exit__"
    /\ ret.fields = <<"RuntimeError">>
    /\ ret.exc = "RuntimeError"
    /\ producers = << >>
    /\ consumers = << >>
    /\ \E h \in DOMAIN handles : handles[h].closeCalled /\ ~handles[h].open

\* A client constructor has been invoked.
ClientConstructed == handles # << >> \/ DOMAIN ctorCalls # {}

\* C15: a client constructor is invoked only on a session whose
\* construction succeeded, so one whose configuration has every required
\* field non-empty and names an existing keytab; construction runs once,
\* before any client exists; and after a failed construction no operation
\* takes place at all.
C15_NoHandleWithoutValidConfig ==
    /\ [](ClientConstructed =>
            /\ status = "ready"
            /\ initError = None
            /\ \A k \in RequiredSet : NonEmpty(k)
            /\ config["keytab_path"] \in DOMAIN fs)
    /\ [][/\ ret'.op = "__init__" => (status = "new" /\ ~ClientConstructed)
          /\ status = "new" => ret'.op = "__init__"
          /\ status = "failed" => FALSE]_vars

\* Validation failed and the behaviour ends there, with no client.
C15_Witness ==
    /\ status = "failed"
    /\ ret.op = "__init__"
    /\ ret.kind = MissingRequired
    /\ ~ClientConstructed

\* C16 as stated: session construction, get_producer, get_consumer,
\* produce_message and consume_messages fail with KafkaKerberosError only.
C16_Original ==
    ret.op \in {"__init__", "get_producer", "get_consumer", "produce_message",
                "consume_messages"} =>
        ret.exc \in {"", "KafkaKerberosError"}

CloseLogged == ret.kind = "Error closing connections"

\* A poll of the last consume_messages call failed.
PollFailed == ~NoPollRaised \/ (ret.handle # 0 /\ ~handles[ret.handle].open)

\* C17 as stated, for close: an error inside close() reaches the caller.
C17_Original == (ret.op = "close" /\ CloseLogged) => ret.exc # ""

\* C17 (amended): the session logs without raising in two places, the
\* message handler inside consume_messages and a client's close() inside
\* close() (so close() never raises, and __exit__ adds nothing to the
\* exception of the block).  Everywhere else a failure raises: a failed
\* construction, a failed client constructor in get_producer/get_consumer,
\* a send that is not acknowledged, a failed poll.
C17_SwallowsHandlerAndCloseErrorsOnly ==
    /\ ret.op = "__init__" => (status = "failed" <=> ret.exc # "")
    /\ ret.op \in {"get_producer", "get_consumer"} => (ret.handle = 0 <=> ret.exc # "")
    /\ ret.op = "produce_message" => (ret.send # "acked" <=> ret.exc # "")
    /\ ret.op = "consume_messages" =>
          ((ret.handle = 0 \/ PollFailed) <=> ret.exc # "")
    /\ ret.op = "close" => ret.exc = ""
    /\ ret.op = "__exit__" => ret.exc = (IF ret.fields = << >> THEN "" ELSE ret.fields[1])
    /\ (ret.swallowed # << >> \/ CloseLogged) =>
          ret.op \in {"consume_messages", "close", "__exit__"}

\* close() returned normally although a client's close() raised.
C17_Witness ==
    /\ ret.op = "close"
    /\ CloseLogged
    /\ ret.exc = ""
    /\ ret.value = "None"
    /\ \E h \in Cached : handles[h].closeCalled

(***************************************************************************)
(* Properties of the credential setup (SpecResolve).                       *)
(***************************************************************************)
\* The JAAS path the sources configure: the winning source gives a
\* non-empty path.
ConfiguredJaas ==
    IF Precedence("jaas_config_path") \in {None, Some("")} THEN None
    ELSE Precedence("jaas_config_path")

\* C18: after a successful construction config.jaas_config_path is
\* non-empty and JAVA_OPTS is the login-config option naming that same
\* path.  When the sources configured a (non-empty) JAAS path, the config
\* keeps it and no file exists at /tmp/kafka_jaas.conf; otherwise the config
\* records /tmp/kafka_jaas.conf and the file there holds the keytab path and
\* principal of the config.
C18_JaasPathAndJavaOpts ==
    (status = "ready" /\ ret.op = "__init__") =>
        /\ NonEmpty("jaas_config_path")
        /\ "JAVA_OPTS" \in DOMAIN environ
        /\ environ["JAVA_OPTS"] =
              "-Djava.security.auth.login.config=" \o config["jaas_config_path"]
        /\ ConfiguredJaas # None =>
              /\ config["jaas_config_path"] = ConfiguredJaas[1]
              /\ "/tmp/kafka_jaas.conf" \notin DOMAIN fs
        /\ ConfiguredJaas = None =>
              /\ config["jaas_config_path"] = "/tmp/kafka_jaas.conf"
              /\ "/tmp/kafka_jaas.conf" \in DOMAIN fs
              /\ fs["/tmp/kafka_jaas.conf"] =
                    [kind |-> "jaas", keyTab |-> config["keytab_path"],
                     principal |-> config["principal"]]

\* No JAAS path in any source: the file was generated from the keytab and
\* principal of the session.
C18_Witness ==
    /\ status = "ready"
    /\ ret.op = "__init__"
    /\ Precedence("jaas_config_path") = None
    /\ config["jaas_config_path"] = "/tmp/kafka_jaas.conf"
    /\ fs["/tmp/kafka_jaas.conf"].keyTab = KeytabOk
    /\ environ["JAVA_OPTS"] = "-Djava.security.auth.login.config=/tmp/kafka_jaas.conf"

(***************************************************************************)
(* Properties of the session operations (Spec).                            *)
(***************************************************************************)
\* C19: once construction has completed, no operation changes the resolved
\* configuration: every step of get_producer, get_consumer, produce_message,
\* consume_messages, close, __enter__ and __exit__ leaves config as it was.
C19_ConfigFrozenAfterConstruction ==
    [][status = "ready" => config' = config]_vars

\* A producer for another topic was obtained and closed and a consume call
\* has returned records; the config is as construction left it.
C19_Witness ==
    /\ status = "ready"
    /\ ret.op = "consume_messages"
    /\ ret.messages # << >>
    /\ \E h \in DOMAIN handles :
          /\ handles[h].role = "producer"
          /\ handles[h].topic = "orders"
          /\ handles[h].closeCalled
    /\ config["topic"] = "env-topic"
    /\ config["jaas_config_path"] = JaasPath

\* The cache an operation works on.
RoleFor(op) == IF op \in {"get_producer", "produce_message"} THEN "producer" ELSE "consumer"

TopicOps == {"get_producer", "get_consumer", "produce_message", "consume_messages"}

\* The call was made without topic, or with the configured topic.
DefaultTopicCall(r) ==
    r.op \in TopicOps /\ r.arg \in {None, Some(config["topic"])}

\* C20: a call without topic and a call with topic = config.topic do the
\* same.  Either resolves to config.topic; the client it returns or uses is
\* the one cached under config.topic, constructed for config.topic and, if a
\* consumer, subscribed to it; and when config.topic is cached already the
\* call takes that entry and constructs nothing.
C20_NoTopicMeansConfigTopic ==
    /\ [](DefaultTopicCall(ret) =>
            /\ ret.topic = config["topic"]
            /\ ret.handle # 0 =>
                  /\ handles[ret.handle].role = RoleFor(ret.op)
                  /\ handles[ret.handle].topic = config["topic"]
                  /\ RoleFor(ret.op) = "consumer" =>
                        handles[ret.handle].subscribed = Some(config["topic"])
                  /\ config["topic"] \in Keys(Cache(RoleFor(ret.op)))
                  /\ Get(Cache(RoleFor(ret.op)), config["topic"]) = ret.handle)
    /\ [][(DefaultTopicCall(ret') /\ config["topic"] \in Keys(Cache(RoleFor(ret'.op)))) =>
            /\ ret'.handle = Get(Cache(RoleFor(ret'.op)), config["topic"])
            /\ handles' = handles
            /\ ctorCalls' = ctorCalls]_vars

\* produce_message without topic sent to config.topic through the producer
\* cached under config.topic.
C20_Witness ==
    /\ ret.op = "produce_message"
    /\ ret.arg = None
    /\ ret.exc = ""
    /\ ret.topic = "env-topic"
    /\ config["topic"] = "env-topic"
    /\ Get(producers, "env-topic") = ret.handle

(***************************************************************************)
(* SpecRace: two sessions constructed by two threads of one process.  Both *)
(* __init__ calls have resolved and validated their configuration (each    *)
(* from its own config file) and are about to run _setup_kerberos (line    *)
(* 99); its statements interleave.  The environment and the filesystem are *)
(* those of the process.                                                   *)
(***************************************************************************)
SessionIds == {1, 2}

RaceJaasChoices == {None, Some(""), Some("/etc/kafka/jaas.conf")}

RaceSection(i, jaas) ==
    Update([bootstrap_servers |-> "localhost:9092",
            topic |-> "test-topic",
            keytab_path |-> IF i = 1 THEN "/tmp/one.keytab" ELSE "/tmp/two.keytab",
            principal |-> IF i = 1 THEN "one@EXAMPLE.COM" ELSE "two@EXAMPLE.COM"],
           IF jaas = None THEN EmptyDict ELSE [jaas_config_path |-> jaas[1]])

RaceIni(i) == IF i = 1 THEN "/tmp/one.ini" ELSE "/tmp/two.ini"

RaceFiles(jaas) ==
    [p \in {"/tmp/one.keytab", "/tmp/two.keytab", "/tmp/one.ini", "/tmp/two.ini"} |->
        IF p = "/tmp/one.ini"
        THEN [kind |-> "ini", sections |-> [kafka |-> RaceSection(1, jaas[1])]]
        ELSE IF p = "/tmp/two.ini"
        THEN [kind |-> "ini", sections |-> [kafka |-> RaceSection(2, jaas[2])]]
        ELSE [kind |-> "keytab"]]

InitRace ==
    /\ \E jaas \in [SessionIds -> RaceJaasChoices] :
          /\ fs = RaceFiles(jaas)
          /\ sessions = [i \in SessionIds |->
                           [pc |-> "krb5",
                            config |-> load_config(Some(RaceIni(i)), RaceFiles(jaas),
                                                   EmptyDict).cfg]]
    /\ tmpWritable \in BOOLEAN
    /\ DOTENV_AVAILABLE = TRUE
    /\ environ = EmptyDict
    /\ config_file = None
    /\ status = "new"
    /\ config = EmptyDict
    /\ initError = None
    /\ producers = << >>
    /\ consumers = << >>
    /\ handles = << >>
    /\ ctorCalls = [k \in {} |-> 0]
    /\ incoming = << >>
    /\ ret = NoCall
    /\ loop = NoLoop

RaceFrame ==
    UNCHANGED <<DOTENV_AVAILABLE, config_file, tmpWritable, status, config, initError,
                producers, consumers, handles, ctorCalls, incoming, ret, loop>>

\* Lines 202-203.
SetKrb5(i) ==
    /\ sessions[i].pc = "krb5"
    /\ environ' = Update(environ, Krb5Vars)
    /\ sessions' = [sessions EXCEPT ![i].pc = "branch"]
    /\ UNCHANGED fs
    /\ RaceFrame

\* Lines 207-210: the test, and JAVA_OPTS from the configured path.
Branch(i) ==
    /\ sessions[i].pc = "branch"
    /\ IF Falsy(sessions[i].config, "jaas_config_path")
       THEN /\ sessions' = [sessions EXCEPT ![i].pc = "write"]
            /\ UNCHANGED environ
       ELSE /\ sessions' = [sessions EXCEPT ![i].pc = "done"]
            /\ environ' = Update(environ,
                   [k \in {"JAVA_OPTS"} |-> JavaOpts(sessions[i].config["jaas_config_path"])])
    /\ UNCHANGED fs
    /\ RaceFrame

\* Variant: the file is created exclusively; an existing file is kept.
WriteJaas_KeepExisting(i) ==
    /\ sessions[i].pc = "write"
    /\ IF tmpWritable
       THEN /\ fs' = IF JaasPath \in DOMAIN fs THEN fs
                     ELSE Update(fs, [p \in {JaasPath} |->
                             [kind |-> "jaas", keyTab |-> sessions[i].config["keytab_path"],
                              principal |-> sessions[i].config["principal"]]])
            /\ sessions' = [sessions EXCEPT ![i].pc = "opts"]
       ELSE /\ sessions' = [sessions EXCEPT ![i].pc = "failed"]
            /\ UNCHANGED fs
    /\ UNCHANGED environ
    /\ RaceFrame

\* Lines 229-231: open(jaas_config_path, 'w') and write; open may fail.
WriteJaas(i) ==
    /\ sessions[i].pc = "write"
    /\ IF tmpWritable
       THEN /\ fs' = Update(fs, [p \in {JaasPath} |->
                        [kind |-> "jaas", keyTab |-> sessions[i].config["keytab_path"],
                         principal |-> sessions[i].config["principal"]]])
            /\ sessions' = [sessions EXCEPT ![i].pc = "opts"]
       ELSE /\ sessions' = [sessions EXCEPT ![i].pc = "failed"]
            /\ UNCHANGED fs
    /\ UNCHANGED environ
    /\ RaceFrame

\* Line 233.
SetJavaOpts(i) ==
    /\ sessions[i].pc = "opts"
    /\ environ' = Update(environ, [k \in {"JAVA_OPTS"} |-> JavaOpts(JaasPath)])
    /\ sessions' = [sessions EXCEPT ![i].pc = "record"]
    /\ UNCHANGED fs
    /\ RaceFrame

\* Line 234.
RecordPath(i) ==
    /\ sessions[i].pc = "record"
    /\ sessions' = [sessions EXCEPT
                       ![i].pc = "done",
                       ![i].config = Update(@, [k \in {"jaas_config_path"} |-> JaasPath])]
    /\ UNCHANGED <<environ, fs>>
    /\ RaceFrame

NextRace ==
    \E i \in SessionIds :
        \/ SetKrb5(i)
        \/ Branch(i)
        \/ WriteJaas(i)
        \/ SetJavaOpts(i)
        \/ RecordPath(i)

SpecRace == InitRace /\ [][NextRace]_vars

\* What the generated file holds when session i wrote it.
JaasOf(i) ==
    [kind |-> "jaas", keyTab |-> sessions[i].config["keytab_path"],
     principal |-> sessions[i].config["principal"]]

\* C21: the generated JAAS file and JAVA_OPTS belong to the process, not to
\* a session: a session that writes the file replaces whatever another
\* session wrote there, the file changes in no other way, and every session
\* that generated its JAAS configuration records the one fixed path.  So
\* the last writer wins, and a session can be left recording a path whose
\* file holds the other session's keytab and principal (C21_Witness).
C21_LastWriterWins ==
    /\ [](\A i \in SessionIds :
            (sessions[i].pc = "done" /\ sessions[i].config["jaas_config_path"] = JaasPath) =>
               /\ JaasPath \in DOMAIN fs
               /\ \E j \in SessionIds : fs[JaasPath] = JaasOf(j))
    /\ [][/\ \A i \in SessionIds :
               (sessions[i].pc = "write" /\ sessions'[i].pc = "opts") =>
                   fs'[JaasPath] = JaasOf(i)
          /\ fs' # fs =>
               \E i \in SessionIds : sessions[i].pc = "write" /\ sessions'[i].pc = "opts"]_vars

\* Session 1 has finished and records /tmp/kafka_jaas.conf, and the file
\* there holds the keytab and principal of session 2.
C21_Witness ==
    /\ sessions[1].pc = "done"
    /\ sessions[1].config["jaas_config_path"] = "/tmp/kafka_jaas.conf"
    /\ fs["/tmp/kafka_jaas.conf"].keyTab = sessions[2].config["keytab_path"]
    /\ fs["/tmp/kafka_jaas.conf"].principal = sessions[2].config["principal"]
    /\ sessions[2].config["principal"] # sessions[1].config["principal"]

(***************************************************************************)
(* Further properties of the consume loop (SpecConsume).                   *)
(***************************************************************************)
\* The values of a list increase strictly: the list is in arrival order and
\* holds no record twice.
InArrivalOrder(list) == \A i, j \in DOMAIN list : i < j => list[i] < list[j]

LoopMaxPolls == 3

LoopMaxCount == MaxCap + MaxPartitions * MaxRecords

Min(a, b) == IF a < b THEN a ELSE b

InitLoop ==
    /\ \E max_messages \in Caps :
          loop = [pc |-> "check", max_messages |-> max_messages, message_count |-> 0,
                  polls |-> 0, reason |-> ""]
    /\ DOTENV_AVAILABLE = TRUE
    /\ environ = EmptyDict
    /\ config_file = None
    /\ fs = BaseFiles
    /\ tmpWritable = TRUE
    /\ status = "new"
    /\ config = EmptyDict
    /\ initError = None
    /\ producers = << >>
    /\ consumers = << >>
    /\ handles = << >>
    /\ ctorCalls = [k \in {} |-> 0]
    /\ incoming = << >>
    /\ ret = NoCall
    /\ sessions = << >>

LoopFrame ==
    UNCHANGED <<DOTENV_AVAILABLE, environ, config_file, fs, tmpWritable, status, config,
                initError, producers, consumers, handles, ctorCalls, incoming, ret, sessions>>

\* Variant: the test at the head of the loop is missing.
LoopCheck_NoCap ==
    /\ loop.pc = "check"
    /\ loop' = [loop EXCEPT !.pc = "poll"]
    /\ LoopFrame

\* Lines 399-400.
LoopCheck ==
    /\ loop.pc = "check"
    /\ loop' = IF Capped(loop.max_messages, loop.message_count)
               THEN [loop EXCEPT !.pc = "done", !.reason = "cap"]
               ELSE [loop EXCEPT !.pc = "poll"]
    /\ LoopFrame

\* Lines 403-426: the poll, the records of its result, the test for the
\* empty result.  A poll that raises leaves the loop through line 430.
LoopPoll ==
    /\ loop.pc = "poll"
    /\ \E shape \in BatchShapes :
          LET message_batch == StreamOf(<<shape>>)[1].batch
              st == ProcessBatch(message_batch,
                                 [LoopStart EXCEPT !.message_count = loop.message_count],
                                 loop.max_messages, None)
              polled == [loop EXCEPT !.polls = Min(@ + 1, LoopMaxPolls)]
          IN  loop' = IF shape.raises
                      THEN [polled EXCEPT !.pc = "raised", !.reason = "error"]
                      ELSE IF message_batch = << >>
                      THEN [polled EXCEPT !.pc = "done", !.reason = "empty"]
                      ELSE [polled EXCEPT !.pc = "check",
                               !.message_count = Min(st.message_count, LoopMaxCount)]
    /\ LoopFrame

NextLoop == LoopCheck \/ LoopPoll

\* The thread running the loop is not suspended for ever.
SpecLoop == InitLoop /\ [][NextLoop]_vars /\ WF_vars(NextLoop)

LoopEnded == loop.pc \in {"done", "raised"}

CapGiven == loop.max_messages # None /\ loop.max_messages[1] >= 1

\* C23 as stated: whatever the polls return, the loop ends, because the
\* cap was reached or because a poll returned no records.
C23_Original == <>(LoopEnded /\ loop.reason \in {"cap", "empty"})

\* C23 (amended): with max_messages >= 1 the loop ends whatever the polls
\* return.  The loop ends in three ways only: at its head when the cap is
\* reached (which needs a cap of at least 1), after a poll that returned no
\* records, or by the exception of a failed poll.  (Without cap the loop
\* goes on as long as every poll returns records: C23_Original fails.)
C23_TerminatesWithCap ==
    /\ [](CapGiven => <>LoopEnded)
    /\ [](LoopEnded =>
            /\ loop.reason \in {"cap", "empty", "error"}
            /\ loop.reason = "cap" =>
                  (CapGiven /\ loop.message_count >= loop.max_messages[1])
            /\ loop.reason # "cap" => loop.polls >= 1)
    /\ [][loop.pc = "check" /\ loop'.pc = "poll" =>
            (~CapGiven \/ loop.message_count < loop.max_messages[1])]_vars

\* A cap of 3 ended the loop after two polls that returned records.
C23_Witness ==
    /\ loop.pc = "done"
    /\ loop.reason = "cap"
    /\ loop.max_messages = Some(3)
    /\ loop.polls = 2

(***************************************************************************)
(* Further properties of the handle caches (Spec).                         *)
(***************************************************************************)
\* The step is a get_producer/get_consumer call.
GetCall == ret'.op \in {"get_producer", "get_consumer"}

\* C24: a get_producer/get_consumer call whose client constructor fails
\* raises KafkaKerberosError "Failed to create ... for topic" and leaves both
\* caches and the set of clients as they were, with no entry for the topic;
\* and every call that finds no entry for its topic invokes the constructor,
\* so a call after the failure tries again.
C24_FailedConstructionLeavesCaches ==
    [][GetCall =>
          LET role  == RoleOf(ret'.op)
              topic == ret'.topic
          IN  /\ ret'.handle = 0 =>
                    /\ ret'.exc = "KafkaKerberosError"
                    /\ ret'.kind = "Failed to create " \o role \o " for topic"
                    /\ producers' = producers
                    /\ consumers' = consumers
                    /\ handles' = handles
                    /\ topic \notin Keys(CacheNext(role))
              /\ ret'.handle = 0 => topic \notin Keys(Cache(role))
              /\ topic \notin Keys(Cache(role)) =>
                    CtorCount(ctorCalls', role, topic) = CtorCount(ctorCalls, role, topic) + 1
              /\ ret'.exc # "" => ret'.handle = 0]_vars

\* The consumer constructor failed for a topic and a later get_consumer for
\* the same topic constructed the client.
C24_Witness ==
    /\ ret.op = "get_consumer"
    /\ ret.exc = ""
    /\ CtorCount(ctorCalls, "consumer", ret.topic) = 2
    /\ Constructed("consumer", ret.topic) = {ret.handle}
    /\ ~handles[ret.handle].closeCalled

\* C25 as stated: every client a cache holds is open and has not had close
\* invoked on it, so get_producer/get_consumer never return a closed client.
C25_Original ==
    /\ \A h \in Cached : handles[h].open /\ ~handles[h].closeCalled
    /\ GotHandle(ret) => (handles[ret.handle].open /\ ~handles[ret.handle].closeCalled)

\* C26: when a poll of consume_messages fails, the call raises
\* KafkaKerberosError "Message consumption failed" and returns nothing: the
\* records of the polls before the failing one are lost to the caller,
\* although a handler, if given, has been invoked on them.
C26_PollFailureLosesMessages ==
    (Consumed /\ ~NoPollRaised) =>
        /\ ret.exc = "KafkaKerberosError"
        /\ ret.kind = "Message consumption failed"
        /\ ret.value = ""
        /\ ret.messages = << >>
        /\ ret.stream[ret.polls].raises
        /\ (ret.handler # None /\ ret.cap = None) =>
              ret.handled = Arrived(ret.stream, ret.polls - 1)

\* The first poll returned two records, the second poll failed: the handler
\* saw both records and the caller got the exception.
C26_Witness ==
    /\ Consumed
    /\ ret.polls = 2
    /\ Len(ret.stream) = 2
    /\ ret.stream[2].raises
    /\ ret.handled = <<1, 2>>
    /\ ret.messages = << >>
    /\ ret.exc = "KafkaKerberosError"

(***************************************************************************)
(* Further properties of session construction (SpecResolve).               *)
(***************************************************************************)
\* __init__ raised before _setup_kerberos was called.
FailedBeforeSetup ==
    /\ status = "failed"
    /\ ret.op = "__init__"
    /\ ret.exc \in {"AttributeError", "ValueError"} \/ ret.kind \in ValidationErrors

\* C27: a construction that fails in resolution or validation has written
\* no JAAS file and set none of KRB5_CONFIG, KRB5CCNAME, JAVA_OPTS.  (No
\* scenario starts with the file or with any of the three variables.)
C27_NoCredentialSideEffects ==
    FailedBeforeSetup =>
        /\ "/tmp/kafka_jaas.conf" \notin DOMAIN fs
        /\ {"KRB5_CONFIG", "KRB5CCNAME", "JAVA_OPTS"} \cap DOMAIN environ = {}

\* Validation failed on the keytab of an otherwise complete environment.
C27_Witness ==
    /\ FailedBeforeSetup
    /\ ret.kind = KeytabNotFound
    /\ "KAFKA_PRINCIPAL" \in DOMAIN environ
    /\ "KRB5_CONFIG" \notin DOMAIN environ
    /\ "/tmp/kafka_jaas.conf" \notin DOMAIN fs

\* A config file path was given and nothing exists there.
MissingFileGiven ==
    /\ config_file # None
    /\ config_file[1] # ""
    /\ config_file[1] \notin DOMAIN fs

\* What _load_config does for this environment when no path is given.
NoFile == load_config(None, fs, environ)

\* C28: with a config file path that does not exist, _load_config does
\* what it does when no path is given: it fails on the same numeric text,
\* or it yields the same fields with the same values.  (jaas_config_path is
\* compared until _create_jaas_config overwrites it.)
C28_MissingFileIgnored ==
    (MissingFileGiven /\ ret.op = "__init__" /\ ret.exc # "AttributeError") =>
        IF NoFile.exc # ""
        THEN ret.exc = NoFile.exc /\ ret.kind = NoFile.kind
        ELSE /\ ret.exc # "ValueError"
             /\ \A k \in Fields :
                   \/ k = "jaas_config_path" /\ JaasGenerated
                   \/ /\ k \in DOMAIN config <=> k \in DOMAIN NoFile.cfg
                      /\ k \in DOMAIN config => config[k] = NoFile.cfg[k]

\* The path given does not exist; the session is constructed from the
\* environment and the defaults.
C28_Witness ==
    /\ MissingFileGiven
    /\ Resolved
    /\ status = "ready"
    /\ config["topic"] = "env-topic"
    /\ config["service_name"] = "kafka"
    /\ config["max_poll_records"] = 500

\* keytab_path is non-empty and names no existing file.
KeytabAbsent == NonEmpty("keytab_path") /\ config["keytab_path"] \notin DOMAIN fs

\* C29: validation raises for the first failing check only.  When some
\* required field is absent or empty the error is the missing-required one,
\* also when the keytab path names no file; the keytab-not-found error is
\* raised only when all four required fields are present and non-empty.
C29_MissingBeforeKeytab ==
    Resolved =>
        /\ (\E k \in RequiredSet : ~NonEmpty(k)) =>
              /\ ret.exc = "KafkaKerberosError"
              /\ ret.kind = MissingRequired
        /\ ret.kind = KeytabNotFound =>
              /\ \A k \in RequiredSet : NonEmpty(k)
              /\ KeytabAbsent

\* The topic is missing and the keytab path names no file: only the topic
\* is reported.
C29_Witness ==
    /\ Resolved
    /\ KeytabAbsent
    /\ ~NonEmpty("topic")
    /\ ret.kind = MissingRequired
    /\ ret.fields = <<"topic">>

====
